---------------------------- MODULE Spec2Model ----------------------------
(***************************************************************************)
(* Relationship & Memory Engine of the NPC brain server.                   *)
(*                                                                         *)
(* State: the process-wide dictionary NPC_MEMORIES (app.py:39), the JSON   *)
(* file data/enhanced_memory.json (app.py:29), a logical clock standing    *)
(* for datetime.now(), the response of the last request, and ghost         *)
(* variables that remember the last request and the events ingested.       *)
(*                                                                         *)
(* Floats (damage) are modelled by integers; an Optional[float] is a       *)
(* sequence of length 0 (None) or 1.  Optional strings use NoneVal.        *)
(* Pass-through text fields that no operation reads (weapon, location,     *)
(* message, item) are left out of the event records.                       *)
(***************************************************************************)
EXTENDS Integers, Sequences, FiniteSets, TLC

VARIABLES
    mem,      \* NPC_MEMORIES: function from the loaded npc ids to stores
    disk,     \* the memory file: [state, data]
    clock,    \* logical time: the value datetime.now() returns next
    steps,    \* ghost: number of event-ingestion requests served
    ret,      \* the response of the last request
    last,     \* ghost: the last request and what it did
    hist,     \* ghost: per npc and kind, the events recorded since the
              \*        npc's current store was created fresh
    thr       \* the requests being served by concurrent threads: for each
              \*        thread its position in record_event and its locals

vars == <<mem, disk, clock, steps, ret, last, hist, thr>>

----------------------------------------------------------------------------
(* Bounds of the model *)

MaxEvents == 2
MaxSteps == 3
MaxLogSteps == 3
MidPrefix == 9
MaxScenarioSteps == 3
MaxIngestSteps == 2
MaxAttacks == 8
MaxAttackSteps == 2
MaxInteractSteps == 2

(* Program constants *)

MAX_LOG == 50
TRUST_MIN == -100
TRUST_MAX == 100
SCORE_MAX == 100
ESCALATION_ATTACKS == 3
ESCALATION_TRUST == -40

NoneVal == "<none>"
NoDamage == << >>
Dmg(x) == << x >>

Agents == {"npcA", "npcB"}
Entities == {"Steve", "Alex"}

CombatTypes == {"attacked_by", "attacked", "witnessed_death"}
SocialTypes == {"chat", "gift_received", "gift_given", "helped", "ignored"}
EnvTypes == {"block_broken", "block_placed", "explosion", "mob_spawned"}

Max2(a, b) == IF a >= b THEN a ELSE b
Min2(a, b) == IF a <= b THEN a ELSE b

----------------------------------------------------------------------------
(* Request payload of /api/npc_event: the "data" object.  A missing key is *)
(* NoneVal (or NoDamage).                                                  *)

Payload(et, name, etype, dmg, descr) ==
    [event_type |-> et, entity_name |-> name, entity_type |-> etype,
     damage |-> dmg, description |-> descr]

NoPayload == Payload(NoneVal, NoneVal, NoneVal, NoDamage, NoneVal)

(* CombatEvent built from event_data: pydantic validation of the payload *)
CombatEventValid(d) ==
    /\ d.event_type \in CombatTypes
    /\ d.entity_name # NoneVal
    /\ d.entity_type # NoneVal

CombatEvent(d, now) ==
    [event_type |-> d.event_type, entity_name |-> d.entity_name,
     entity_type |-> d.entity_type, damage |-> d.damage, timestamp |-> now]

SocialEventValid(d) ==
    /\ d.event_type \in SocialTypes
    /\ d.entity_name # NoneVal

SocialEvent(d, now) ==
    [event_type |-> d.event_type, entity_name |-> d.entity_name,
     timestamp |-> now]

EnvironmentalEventValid(d) ==
    /\ d.event_type \in EnvTypes
    /\ d.description # NoneVal

EnvironmentalEvent(d, now) ==
    [event_type |-> d.event_type, description |-> d.description,
     timestamp |-> now]

----------------------------------------------------------------------------
(* Relationship *)

RelationshipTrusting(name, etype, now) ==
    [entity_name |-> name, entity_type |-> etype,
     trust |-> 5, fear |-> 0, affection |-> 0,
     times_attacked_by |-> 0, times_attacked |-> 0,
     total_damage_received |-> 0, total_damage_dealt |-> 0,
     gifts_received |-> 0, gifts_given |-> 0, times_helped |-> 0,
     last_interaction |-> now]

Relationship(name, etype, now) ==
    [entity_name |-> name, entity_type |-> etype,
     trust |-> 0, fear |-> 0, affection |-> 0,
     times_attacked_by |-> 0, times_attacked |-> 0,
     total_damage_received |-> 0, total_damage_dealt |-> 0,
     gifts_received |-> 0, gifts_given |-> 0, times_helped |-> 0,
     last_interaction |-> now]

(* The Field(ge=, le=) constraints, checked when a Relationship is built   *)
(* from data (not on attribute assignment).                                *)
RelationshipValid(r) ==
    /\ r.trust >= TRUST_MIN /\ r.trust <= TRUST_MAX
    /\ r.fear >= 0 /\ r.fear <= SCORE_MAX
    /\ r.affection >= 0 /\ r.affection <= SCORE_MAX

get_status_le(rel) ==
    IF rel.trust <= -50 THEN "enemy"
    ELSE IF rel.trust <= -20 THEN "hostile"
    ELSE IF rel.trust <= 20 THEN "neutral"
    ELSE IF rel.trust <= 50 THEN "friendly"
    ELSE "trusted_friend"

get_status(rel) ==
    IF rel.trust < -50 THEN "enemy"
    ELSE IF rel.trust < -20 THEN "hostile"
    ELSE IF rel.trust < 20 THEN "neutral"
    ELSE IF rel.trust < 50 THEN "friendly"
    ELSE "trusted_friend"

get_sentiment_affection_first(rel) ==
    IF rel.affection > 60 THEN "loves"
    ELSE IF rel.affection > 30 THEN "likes"
    ELSE IF rel.fear > 60 THEN "terrified"
    ELSE IF rel.fear > 30 THEN "afraid"
    ELSE IF rel.trust < -50 THEN "hates"
    ELSE "indifferent"

get_sentiment(rel) ==
    IF rel.fear > 60 THEN "terrified"
    ELSE IF rel.fear > 30 THEN "afraid"
    ELSE IF rel.affection > 60 THEN "loves"
    ELSE IF rel.affection > 30 THEN "likes"
    ELSE IF rel.trust < -50 THEN "hates"
    ELSE "indifferent"

NoClampScores(rel) == rel

ClampTrustOnly(rel) ==
    [rel EXCEPT !.trust = Max2(TRUST_MIN, Min2(TRUST_MAX, @))]

(* "Clamp values": the three max/min lines that end both update methods *)
ClampScores(rel) ==
    [rel EXCEPT !.trust = Max2(TRUST_MIN, Min2(TRUST_MAX, @)),
                !.fear = Max2(0, Min2(SCORE_MAX, @)),
                !.affection = Max2(0, Min2(SCORE_MAX, @))]

----------------------------------------------------------------------------
(* EnhancedMemoryStore *)

EnhancedMemoryStore(npc_id, now) ==
    [npc_id |-> npc_id,
     combat_events |-> << >>,
     social_events |-> << >>,
     environmental_events |-> << >>,
     relationships |-> << >>,
     current_threat |-> NoneVal,
     current_ally |-> NoneVal,
     current_goal |-> "idle",
     total_interactions |-> 0,
     total_combat_events |-> 0,
     creation_time |-> now]

KeepFirst(s, n) == IF Len(s) <= n THEN s ELSE SubSeq(s, 1, n)

KeepLastLoose(s, n) == IF Len(s) <= n + 1 THEN s ELSE SubSeq(s, Len(s) - n, Len(s))

(* s[-n:] *)
KeepLast(s, n) == IF Len(s) <= n THEN s ELSE SubSeq(s, Len(s) - n + 1, Len(s))

(* d[k] = v on a dict *)
Put(f, k, v) == (k :> v) @@ f

(* del d[k] *)
Del(f, k) == [x \in (DOMAIN f) \ {k} |-> f[x]]

DamageDoubled(ev) == IF ev.damage = NoDamage THEN 0 ELSE 2 * ev.damage[1]

(* "event.damage or 0" *)
DamageOr0(ev) == IF ev.damage = NoDamage THEN 0 ELSE ev.damage[1]

EscalatesLate(n) == n > ESCALATION_ATTACKS

EscalatesOnce(n) == n = ESCALATION_ATTACKS

EscalatesEarly(n) == n >= ESCALATION_ATTACKS - 1

(* "if rel.times_attacked_by >= 3" *)
Escalates(n) == n >= ESCALATION_ATTACKS

add_combat_event(m, event, now) ==
    LET name == event.entity_name
        rels == IF name \in DOMAIN m.relationships
                THEN m.relationships
                ELSE Put(m.relationships, name,
                         Relationship(name, event.entity_type, now))
        rel == rels[name]
        hit == [rel EXCEPT !.times_attacked_by = @ + 1,
                           !.total_damage_received = @ + DamageOr0(event),
                           !.trust = @ - 15,
                           !.fear = @ + 10,
                           !.affection = @ - 5]
        esc == event.event_type = "attacked_by"
                   /\ Escalates(hit.times_attacked_by)
        upd == IF event.event_type = "attacked_by"
               THEN IF esc
                    THEN [hit EXCEPT !.trust = Min2(@, ESCALATION_TRUST)]
                    ELSE hit
               ELSE IF event.event_type = "attacked"
               THEN [rel EXCEPT !.times_attacked = @ + 1,
                                !.total_damage_dealt = @ + DamageOr0(event)]
               ELSE IF event.event_type = "witnessed_death"
               THEN [rel EXCEPT !.fear = @ + 5]
               ELSE rel
        fin == [ClampScores(upd) EXCEPT !.last_interaction = now]
    IN [m EXCEPT !.combat_events = KeepLast(Append(@, event), MAX_LOG),
                 !.total_combat_events = @ + 1,
                 !.relationships = Put(rels, name, fin),
                 !.current_threat = IF esc THEN name ELSE @]

add_social_event(m, event, now) ==
    LET name == event.entity_name
        rels == IF name \in DOMAIN m.relationships
                THEN m.relationships
                ELSE Put(m.relationships, name,
                         Relationship(name, "player", now))
        rel == rels[name]
        upd == IF event.event_type = "gift_received"
               THEN [rel EXCEPT !.gifts_received = @ + 1,
                                !.trust = @ + 10,
                                !.affection = @ + 15,
                                !.fear = Max2(0, @ - 5)]
               ELSE IF event.event_type = "gift_given"
               THEN [rel EXCEPT !.gifts_given = @ + 1]
               ELSE IF event.event_type = "helped"
               THEN [rel EXCEPT !.times_helped = @ + 1,
                                !.trust = @ + 5,
                                !.affection = @ + 5]
               ELSE rel
        fin == [ClampScores(upd) EXCEPT !.last_interaction = now]
    IN [m EXCEPT !.social_events = KeepLast(Append(@, event), MAX_LOG),
                 !.total_interactions = @ + 1,
                 !.relationships = Put(rels, name, fin)]

add_environmental_event_counted(m, event) ==
    [m EXCEPT !.environmental_events = KeepLast(Append(@, event), MAX_LOG),
              !.total_interactions = @ + 1]

(* The environmental branch of record_event *)
add_environmental_event(m, event) ==
    [m EXCEPT !.environmental_events = KeepLast(Append(@, event), MAX_LOG)]

should_be_aggressive_by_trust(m, entity_name) ==
    IF entity_name \notin DOMAIN m.relationships THEN FALSE
    ELSE LET rel == m.relationships[entity_name]
         IN rel.trust < 0 /\ rel.fear < 70

should_be_aggressive_le(m, entity_name) ==
    IF entity_name \notin DOMAIN m.relationships THEN FALSE
    ELSE LET rel == m.relationships[entity_name]
         IN rel.trust <= -30 /\ rel.fear < 70 /\ rel.times_attacked_by >= 2

should_be_aggressive(m, entity_name) ==
    IF entity_name \notin DOMAIN m.relationships THEN FALSE
    ELSE LET rel == m.relationships[entity_name]
         IN rel.trust < -30 /\ rel.fear < 70 /\ rel.times_attacked_by >= 2

should_avoid_fear_only(m, entity_name) ==
    IF entity_name \notin DOMAIN m.relationships THEN FALSE
    ELSE m.relationships[entity_name].fear > 50

should_avoid_unless_aggressive(m, entity_name) ==
    IF entity_name \notin DOMAIN m.relationships THEN FALSE
    ELSE LET rel == m.relationships[entity_name]
         IN /\ ~should_be_aggressive(m, entity_name)
            /\ \/ rel.fear > 50
               \/ rel.trust < -20 /\ rel.total_damage_received > 15

should_avoid(m, entity_name) ==
    IF entity_name \notin DOMAIN m.relationships THEN FALSE
    ELSE LET rel == m.relationships[entity_name]
         IN rel.fear > 50
                \/ (rel.trust < -20 /\ rel.total_damage_received > 15)

----------------------------------------------------------------------------
(* Persistence: model_dump / json.dump, json.load / EnhancedMemoryStore     *)
(* built from the loaded data                                              *)

DumpRelationship(r) ==
    [entity_name |-> r.entity_name, entity_type |-> r.entity_type,
     trust |-> r.trust, fear |-> r.fear, affection |-> r.affection,
     times_attacked_by |-> r.times_attacked_by,
     times_attacked |-> r.times_attacked,
     total_damage_received |-> r.total_damage_received,
     total_damage_dealt |-> r.total_damage_dealt,
     gifts_received |-> r.gifts_received, gifts_given |-> r.gifts_given,
     times_helped |-> r.times_helped,
     last_interaction |-> r.last_interaction]

model_dump_no_ledgers(m) ==
    [npc_id |-> m.npc_id,
     combat_events |-> m.combat_events,
     social_events |-> m.social_events,
     environmental_events |-> m.environmental_events,
     relationships |-> << >>,
     current_threat |-> m.current_threat,
     current_ally |-> m.current_ally,
     current_goal |-> m.current_goal,
     total_interactions |-> m.total_interactions,
     total_combat_events |-> m.total_combat_events,
     creation_time |-> m.creation_time]

(* memory.model_dump(): the store as plain data, every field, recursively *)
model_dump(m) ==
    [npc_id |-> m.npc_id,
     combat_events |-> m.combat_events,
     social_events |-> m.social_events,
     environmental_events |-> m.environmental_events,
     relationships |->
         [e \in DOMAIN m.relationships |-> DumpRelationship(m.relationships[e])],
     current_threat |-> m.current_threat,
     current_ally |-> m.current_ally,
     current_goal |-> m.current_goal,
     total_interactions |-> m.total_interactions,
     total_combat_events |-> m.total_combat_events,
     creation_time |-> m.creation_time]

(* Does EnhancedMemoryStore built from memory_data pass validation? *)
StoreDataValid(d) ==
    /\ d.npc_id # NoneVal
    /\ \A i \in 1..Len(d.combat_events) :
           /\ d.combat_events[i].event_type \in CombatTypes
           /\ d.combat_events[i].entity_name # NoneVal
           /\ d.combat_events[i].entity_type # NoneVal
    /\ \A i \in 1..Len(d.social_events) :
           /\ d.social_events[i].event_type \in SocialTypes
           /\ d.social_events[i].entity_name # NoneVal
    /\ \A i \in 1..Len(d.environmental_events) :
           /\ d.environmental_events[i].event_type \in EnvTypes
           /\ d.environmental_events[i].description # NoneVal
    /\ \A e \in DOMAIN d.relationships : RelationshipValid(d.relationships[e])

(* Relationship built from valid data *)
RelationshipFromData(r) ==
    [entity_name |-> r.entity_name, entity_type |-> r.entity_type,
     trust |-> r.trust, fear |-> r.fear, affection |-> r.affection,
     times_attacked_by |-> r.times_attacked_by,
     times_attacked |-> r.times_attacked,
     total_damage_received |-> r.total_damage_received,
     total_damage_dealt |-> r.total_damage_dealt,
     gifts_received |-> r.gifts_received, gifts_given |-> r.gifts_given,
     times_helped |-> r.times_helped,
     last_interaction |-> r.last_interaction]

(* EnhancedMemoryStore built from valid memory_data *)
StoreFromData(d) ==
    [npc_id |-> d.npc_id,
     combat_events |-> d.combat_events,
     social_events |-> d.social_events,
     environmental_events |-> d.environmental_events,
     relationships |->
         [e \in DOMAIN d.relationships |->
             RelationshipFromData(d.relationships[e])],
     current_threat |-> d.current_threat,
     current_ally |-> d.current_ally,
     current_goal |-> d.current_goal,
     total_interactions |-> d.total_interactions,
     total_combat_events |-> d.total_combat_events,
     creation_time |-> d.creation_time]

NoFile == [state |-> "absent", data |-> << >>]
CorruptFile == [state |-> "corrupt", data |-> << >>]

(* Outcomes of one write of the file: it succeeds, open() fails and the    *)
(* file stays as it was, or the write fails after open() truncated it.     *)
WriteOutcomes == {"ok", "open_fails", "dump_fails"}

(* The dictionary comprehension of save_enhanced_memory *)
snapshot_memories(memories) ==
    [a \in DOMAIN memories |-> model_dump(memories[a])]

(* The file after open(..., "w") and json.dump have succeeded *)
write_file(all_memories) == [state |-> "ok", data |-> all_memories]

save_nothing(memories, file, w) == file

(* save_enhanced_memory(): every store in NPC_MEMORIES, keyed by npc id;   *)
(* an exception is printed and swallowed.                                  *)
save_enhanced_memory(memories, file, w) ==
    IF w = "ok"
    THEN write_file(snapshot_memories(memories))
    ELSE IF w = "open_fails" THEN file
    ELSE CorruptFile

memory_rolled_back(after, before, w) == IF w = "ok" THEN after ELSE before

(* NPC_MEMORIES once save_enhanced_memory has returned: a failure of the   *)
(* write is caught and printed, the dictionary is not touched.             *)
memory_after_save(after, before, w) == after

load_without_save(memories, file, npc_id, now, w) ==
    IF npc_id \in DOMAIN memories
    THEN [mem |-> memories, disk |-> file, source |-> "memory", writes |-> << >>]
    ELSE IF /\ file.state = "ok"
            /\ npc_id \in DOMAIN file.data
            /\ StoreDataValid(file.data[npc_id])
    THEN [mem |-> Put(memories, npc_id, StoreFromData(file.data[npc_id])),
          disk |-> file, source |-> "file", writes |-> << >>]
    ELSE [mem |-> Put(memories, npc_id, EnhancedMemoryStore(npc_id, now)),
          disk |-> file, source |-> "fresh", writes |-> << >>]

(* load_enhanced_memory(npc_id): the store in memory, else the one in the  *)
(* file, else a fresh one that is saved at once.  Returns the collection,  *)
(* the file, where the store came from ("memory", "file", "fresh") and the *)
(* writes performed.                                                       *)
load_enhanced_memory(memories, file, npc_id, now, w) ==
    IF npc_id \in DOMAIN memories
    THEN [mem |-> memories, disk |-> file, source |-> "memory", writes |-> << >>]
    ELSE IF /\ file.state = "ok"
            /\ npc_id \in DOMAIN file.data
            /\ StoreDataValid(file.data[npc_id])
    THEN [mem |-> Put(memories, npc_id, StoreFromData(file.data[npc_id])),
          disk |-> file, source |-> "file", writes |-> << >>]
    ELSE LET fresh == Put(memories, npc_id, EnhancedMemoryStore(npc_id, now))
         IN [mem |-> fresh,
             disk |-> save_enhanced_memory(fresh, file, w),
             source |-> "fresh", writes |-> << w >>]

delete_ignoring_presence(memories, npc_id) == TRUE

(* The test "if npc_id in NPC_MEMORIES" of delete_npc_memory *)
delete_finds(memories, npc_id) == npc_id \in DOMAIN memories

----------------------------------------------------------------------------
(* Responses and the ghost record of the last request *)

NoSnapshot ==
    [entity |-> NoneVal, status |-> NoneVal, sentiment |-> NoneVal,
     trust |-> 0, fear |-> 0, affection |-> 0,
     should_attack |-> FALSE, should_avoid |-> FALSE]

(* The "relationship" object of a response *)
Snapshot(m, entity) ==
    LET rel == m.relationships[entity]
    IN [entity |-> entity, status |-> get_status(rel),
        sentiment |-> get_sentiment(rel),
        trust |-> rel.trust, fear |-> rel.fear, affection |-> rel.affection,
        should_attack |-> should_be_aggressive(m, entity),
        should_avoid |-> should_avoid(m, entity)]

NoStatistics ==
    [total_interactions |-> 0, total_combat_events |-> 0,
     relationships_tracked |-> 0,
     current_threat |-> NoneVal, current_goal |-> NoneVal]

Statistics(m) ==
    [total_interactions |-> m.total_interactions,
     total_combat_events |-> m.total_combat_events,
     relationships_tracked |-> Cardinality(DOMAIN m.relationships),
     current_threat |-> m.current_threat,
     current_goal |-> m.current_goal]

(* The number of attacked_by events among the entries of a combat log *)
AttackedByIn(log) ==
    Cardinality({ i \in DOMAIN log : log[i].event_type = "attacked_by" })

NoContext ==
    [threat |-> << >>, recent_attacks |-> 0, enemies |-> {}, friends |-> {},
     combat_history |-> 0, social_history |-> 0]

get_context_summary_all_attacks(m) ==
    [threat |->
         IF /\ m.current_threat # NoneVal
            /\ m.current_threat \in DOMAIN m.relationships
         THEN << [name |-> m.current_threat,
                  attacked |-> m.relationships[m.current_threat].times_attacked_by,
                  trust |-> m.relationships[m.current_threat].trust] >>
         ELSE << >>,
     recent_attacks |-> AttackedByIn(m.combat_events),
     enemies |-> { n \in DOMAIN m.relationships : m.relationships[n].trust < -30 },
     friends |-> { n \in DOMAIN m.relationships : m.relationships[n].trust > 40 },
     combat_history |-> Len(m.combat_events),
     social_history |-> Len(m.social_events)]

(* get_context_summary(): the content of its lines.  threat: the threat    *)
(* line (absent: empty sequence); recent_attacks: the number of the        *)
(* recent-attacks note (0: no note); enemies, friends: the names listed    *)
(* (empty: no line); combat_history, social_history: the counts of the     *)
(* history lines (0: no line).                                             *)
get_context_summary(m) ==
    [threat |->
         IF /\ m.current_threat # NoneVal
            /\ m.current_threat \in DOMAIN m.relationships
         THEN << [name |-> m.current_threat,
                  attacked |-> m.relationships[m.current_threat].times_attacked_by,
                  trust |-> m.relationships[m.current_threat].trust] >>
         ELSE << >>,
     recent_attacks |-> AttackedByIn(KeepLast(m.combat_events, 5)),
     enemies |-> { n \in DOMAIN m.relationships : m.relationships[n].trust < -30 },
     friends |-> { n \in DOMAIN m.relationships : m.relationships[n].trust > 40 },
     combat_history |-> Len(m.combat_events),
     social_history |-> Len(m.social_events)]

Response(code, status) ==
    [code |-> code, status |-> status,
     has_rel |-> FALSE, rel |-> NoSnapshot,
     has_stats |-> FALSE, stats |-> NoStatistics, context |-> NoContext]

RelationshipResponseZero(m, entity) ==
    IF entity \notin DOMAIN m.relationships
    THEN [Response(200, "neutral") EXCEPT
             !.has_rel = TRUE,
             !.rel = [NoSnapshot EXCEPT !.entity = entity,
                                        !.status = "neutral",
                                        !.sentiment = "indifferent"]]
    ELSE [Response(200, get_status(m.relationships[entity]))
             EXCEPT !.has_rel = TRUE, !.rel = Snapshot(m, entity)]

(* The answer of get_relationship once the store is resolved *)
RelationshipResponse(m, entity) ==
    IF entity \notin DOMAIN m.relationships
    THEN Response(200, "unknown")
    ELSE [Response(200, get_status(m.relationships[entity]))
             EXCEPT !.has_rel = TRUE, !.rel = Snapshot(m, entity)]

NoLedger == Relationship(NoneVal, NoneVal, 0)

(* op: the endpoint; npc_id, kind, data, entity: its arguments; source:    *)
(* where load_enhanced_memory found the store ("none" if it was not        *)
(* called); writes: the outcomes of the writes of the                      *)
(* file it performed, in order; accepted: an event was recorded;           *)
(* has_before/before: the ledger of the named counterpart as it was when   *)
(* the request arrived.                                                    *)
Request(op, npc_id, kind, data, entity, source, writes, accepted, m0) ==
    [op |-> op, npc_id |-> npc_id, kind |-> kind, data |-> data,
     entity |-> entity, source |-> source, writes |-> writes,
     accepted |-> accepted,
     has_before |-> entity # NoneVal /\ entity \in DOMAIN m0.relationships,
     before |-> IF entity # NoneVal /\ entity \in DOMAIN m0.relationships
                THEN m0.relationships[entity] ELSE NoLedger]

NoStore == EnhancedMemoryStore(NoneVal, 0)

NoRequest ==
    Request("none", NoneVal, NoneVal, NoPayload, NoneVal, "none", << >>,
            FALSE, NoStore)

EmptyHist == [combat |-> << >>, social |-> << >>, environmental |-> << >>]

Kinds == {"combat", "social", "environmental"}

PayloadAlwaysValid(kind, data) == TRUE

(* Does the event object of the request's kind build from the payload? *)
PayloadValid(kind, data) ==
    IF kind = "combat" THEN CombatEventValid(data)
    ELSE IF kind = "social" THEN SocialEventValid(data)
    ELSE IF kind = "environmental" THEN EnvironmentalEventValid(data)
    ELSE TRUE

(* The event object record_event builds for a valid payload of a known kind *)
EventOf(kind, data, now) ==
    IF kind = "combat" THEN CombatEvent(data, now)
    ELSE IF kind = "social" THEN SocialEvent(data, now)
    ELSE EnvironmentalEvent(data, now)

ApplyEventCombatOnly(m, kind, data, now) ==
    IF kind = "combat" THEN add_combat_event(m, CombatEvent(data, now), now)
    ELSE m

ApplyEventCountingLog(m, kind, data, now) ==
    IF kind = "combat"
    THEN LET r == add_combat_event(m, CombatEvent(data, now), now)
         IN [r EXCEPT !.total_combat_events = Len(r.combat_events)]
    ELSE IF kind = "social" THEN add_social_event(m, SocialEvent(data, now), now)
    ELSE IF kind = "environmental"
    THEN add_environmental_event(m, EnvironmentalEvent(data, now))
    ELSE m

(* The branch of record_event that mutates the store *)
ApplyEvent(m, kind, data, now) ==
    IF kind = "combat" THEN add_combat_event(m, CombatEvent(data, now), now)
    ELSE IF kind = "social" THEN add_social_event(m, SocialEvent(data, now), now)
    ELSE IF kind = "environmental"
    THEN add_environmental_event(m, EnvironmentalEvent(data, now))
    ELSE m

----------------------------------------------------------------------------
(* Endpoints.  w1 is the outcome of the write of a fresh creation, w2 of   *)
(* the write that ends the request; each is used only if that write is     *)
(* performed.                                                              *)

(* POST /api/npc_event *)
RecordEvent(npc_id, kind, data, w1, w2) ==
    /\ UNCHANGED thr
    /\ steps' = steps + 1
    /\ clock' = clock + 1
    /\ IF npc_id = NoneVal
       THEN /\ ret' = Response(400, "Missing npc_id")
            /\ last' = Request("record", npc_id, kind, data, data.entity_name,
                               "none", << >>, FALSE, NoStore)
            /\ UNCHANGED <<mem, disk, hist>>
       ELSE LET L == load_enhanced_memory(mem, disk, npc_id, clock, w1)
                m0 == L.mem[npc_id]
                h0 == IF L.source = "fresh" THEN [hist EXCEPT ![npc_id] = EmptyHist]
                      ELSE hist
            IN IF ~PayloadValid(kind, data)
               THEN /\ mem' = L.mem
                    /\ disk' = L.disk
                    /\ hist' = h0
                    /\ ret' = Response(500, "error")
                    /\ last' = Request("record", npc_id, kind, data,
                                       data.entity_name, L.source, L.writes,
                                       FALSE, m0)
               ELSE LET m1 == ApplyEvent(m0, kind, data, clock)
                        mem1 == Put(L.mem, npc_id, m1)
                        named == /\ kind \in {"combat", "social"}
                                 /\ data.entity_name # NoneVal
                                 /\ data.entity_name \in DOMAIN m1.relationships
                    IN /\ mem' = memory_after_save(mem1, L.mem, w2)
                       /\ disk' = save_enhanced_memory(mem1, L.disk, w2)
                       /\ hist' = IF kind \in Kinds
                                  THEN [h0 EXCEPT ![npc_id][kind] =
                                           Append(@, EventOf(kind, data, clock))]
                                  ELSE h0
                       /\ ret' = IF named
                                 THEN [Response(200, "recorded") EXCEPT
                                          !.has_rel = TRUE,
                                          !.rel = Snapshot(m1, data.entity_name)]
                                 ELSE Response(200, "recorded")
                       /\ last' = Request("record", npc_id, kind, data,
                                          data.entity_name, L.source,
                                          Append(L.writes, w2),
                                          kind \in Kinds, m0)

(* POST /api/npc_interact_enhanced *)

(* The "player" key of the request body: a name, null, or no key at all *)
Absent == "<absent>"
DefaultPlayer == "Unknown Player"
SystemPlayer == "SYSTEM"

(* data.get("player", "Unknown Player") *)
PlayerOf(p) == IF p = Absent THEN DefaultPlayer ELSE p

(* What becomes of the generative call: "ok" (a JSON object came back),    *)
(* "call_fails" (generate_content raises), "parse_fails" (json.loads       *)
(* raises), "not_object" (json.loads returns a value without .get).        *)
GenOutcomes == {"ok", "call_fails", "parse_fails", "not_object"}

interaction_records_always(player, outcome) == player # SystemPlayer

(* Is the statement that records the chat reached?  It follows json.loads  *)
(* and is skipped for the SYSTEM player.                                   *)
interaction_records(player, outcome) ==
    /\ outcome \in {"ok", "not_object"}
    /\ player # SystemPlayer

NpcInteract(npc_id, p, has_message, outcome, w1, w2) ==
    LET player == PlayerOf(p)
        chat == Payload("chat", player, NoneVal, NoDamage, NoneVal)
    IN /\ UNCHANGED thr
       /\ steps' = steps + 1
       /\ clock' = clock + 1
       /\ IF npc_id = NoneVal \/ ~has_message
          THEN /\ ret' = IF npc_id = NoneVal
                         THEN Response(400, "Missing npc_id")
                         ELSE Response(400, "Missing message")
               /\ last' = Request("interact", npc_id, outcome, chat, player,
                                  "none", << >>, FALSE, NoStore)
               /\ UNCHANGED <<mem, disk, hist>>
          ELSE LET L == load_enhanced_memory(mem, disk, npc_id, clock, w1)
                   m0 == L.mem[npc_id]
                   h0 == IF L.source = "fresh"
                         THEN [hist EXCEPT ![npc_id] = EmptyHist]
                         ELSE hist
               IN IF interaction_records(player, outcome) /\ SocialEventValid(chat)
                  THEN LET m1 == add_social_event(m0, SocialEvent(chat, clock), clock)
                           mem1 == Put(L.mem, npc_id, m1)
                       IN /\ mem' = memory_after_save(mem1, L.mem, w2)
                          /\ disk' = save_enhanced_memory(mem1, L.disk, w2)
                          /\ hist' = [h0 EXCEPT ![npc_id].social =
                                          Append(@, SocialEvent(chat, clock))]
                          /\ ret' = IF outcome = "ok"
                                    THEN Response(200, "ok")
                                    ELSE Response(500, "error")
                          /\ last' = Request("interact", npc_id, outcome, chat,
                                             player, L.source,
                                             Append(L.writes, w2), TRUE, m0)
                  ELSE /\ mem' = L.mem
                       /\ disk' = L.disk
                       /\ hist' = h0
                       /\ ret' = IF outcome = "ok" /\ player = SystemPlayer
                                 THEN Response(200, "ok")
                                 ELSE Response(500, "error")
                       /\ last' = Request("interact", npc_id, outcome, chat,
                                          player, L.source, L.writes, FALSE, m0)

(* GET /api/npc_relationship *)
GetRelationship(npc_id, entity, w1) ==
    /\ UNCHANGED <<clock, steps, thr>>
    /\ IF npc_id = NoneVal \/ entity = NoneVal
       THEN /\ ret' = Response(400, "Missing npc_id or entity parameter")
            /\ last' = Request("relationship", npc_id, NoneVal, NoPayload,
                               entity, "none", << >>, FALSE, NoStore)
            /\ UNCHANGED <<mem, disk, hist>>
       ELSE LET L == load_enhanced_memory(mem, disk, npc_id, clock, w1)
                m0 == L.mem[npc_id]
            IN /\ mem' = L.mem
               /\ disk' = L.disk
               /\ hist' = IF L.source = "fresh" THEN [hist EXCEPT ![npc_id] = EmptyHist]
                          ELSE hist
               /\ ret' = RelationshipResponse(m0, entity)
               /\ last' = Request("relationship", npc_id, NoneVal, NoPayload,
                                  entity, L.source, L.writes, FALSE, m0)

(* GET /api/npc_memory_summary *)
GetMemorySummary(npc_id, w1) ==
    /\ UNCHANGED <<clock, steps, thr>>
    /\ IF npc_id = NoneVal
       THEN /\ ret' = Response(400, "Missing npc_id")
            /\ last' = Request("summary", npc_id, NoneVal, NoPayload, NoneVal,
                               "none", << >>, FALSE, NoStore)
            /\ UNCHANGED <<mem, disk, hist>>
       ELSE LET L == load_enhanced_memory(mem, disk, npc_id, clock, w1)
                m0 == L.mem[npc_id]
            IN /\ mem' = L.mem
               /\ disk' = L.disk
               /\ hist' = IF L.source = "fresh" THEN [hist EXCEPT ![npc_id] = EmptyHist]
                          ELSE hist
               /\ ret' = [Response(200, "summary") EXCEPT
                             !.has_stats = TRUE, !.stats = Statistics(m0),
                             !.context = get_context_summary(m0)]
               /\ last' = Request("summary", npc_id, NoneVal, NoPayload, NoneVal,
                                  L.source, L.writes, FALSE, m0)

(* POST /api/npc_delete, with delete_npc_memory *)
DeleteNpc(npc_id, w2) ==
    /\ UNCHANGED <<clock, steps, hist, thr>>
    /\ IF npc_id = NoneVal
       THEN /\ ret' = Response(400, "Missing npc_id")
            /\ last' = Request("delete", npc_id, NoneVal, NoPayload, NoneVal,
                               "none", << >>, FALSE, NoStore)
            /\ UNCHANGED <<mem, disk>>
       ELSE IF delete_finds(mem, npc_id)
       THEN LET mem1 == Del(mem, npc_id)
            IN /\ mem' = mem1
               /\ disk' = save_enhanced_memory(mem1, disk, w2)
               /\ ret' = Response(200, "deleted")
               /\ last' = Request("delete", npc_id, NoneVal, NoPayload, NoneVal,
                                  "none", << w2 >>, FALSE, NoStore)
       ELSE /\ ret' = Response(404, "not_found")
            /\ last' = Request("delete", npc_id, NoneVal, NoPayload, NoneVal,
                               "none", << >>, FALSE, NoStore)
            /\ UNCHANGED <<mem, disk>>

(* The server process stops and starts again: NPC_MEMORIES = {} *)
Restart ==
    /\ mem' = << >>
    /\ ret' = Response(0, "none")
    /\ last' = Request("restart", NoneVal, NoneVal, NoPayload, NoneVal,
                       "none", << >>, FALSE, NoStore)
    /\ UNCHANGED <<disk, clock, steps, hist, thr>>

----------------------------------------------------------------------------
(* Requests served concurrently.  The development server runs every        *)
(* request in a thread of its own (app.run at the end of app.py), and no   *)
(* lock protects NPC_MEMORIES or the file.  A thread holds a reference to  *)
(* a store object: the object NPC_MEMORIES maps its npc id to, or, once    *)
(* another thread has assigned a new object to that key, an object of its  *)
(* own that the dictionary no longer reaches ("detached").                 *)

Threads == {"t1", "t2"}

Idle ==
    [pc |-> "idle", npc_id |-> NoneVal, kind |-> NoneVal, data |-> NoPayload,
     detached |-> FALSE, own |-> NoStore, snap |-> << >>]

NoThreads == [t \in Threads |-> Idle]

(* A call of record_event that has passed the npc_id test *)
Call(npc_id, kind, data) ==
    [Idle EXCEPT !.pc = "lookup", !.npc_id = npc_id, !.kind = kind,
                 !.data = data]

(* NPC_MEMORIES[npc_id] = store by thread t: the threads that hold the     *)
(* object so far mapped to npc_id keep it as their own                     *)
Assign(t, npc_id, store) ==
    /\ mem' = Put(mem, npc_id, store)
    /\ thr' = [u \in Threads |->
                  IF u = t THEN [thr[t] EXCEPT !.pc = "mutate"]
                  ELSE IF /\ thr[u].npc_id = npc_id
                          /\ thr[u].pc = "mutate"
                          /\ ~thr[u].detached
                          /\ npc_id \in DOMAIN mem
                  THEN [thr[u] EXCEPT !.detached = TRUE, !.own = mem[npc_id]]
                  ELSE thr[u]]

(* load_enhanced_memory up to its decision: in memory, in the file, or to  *)
(* be created                                                              *)
TLookup(t) ==
    /\ thr[t].pc = "lookup"
    /\ UNCHANGED <<disk, clock, steps, ret, last, hist>>
    /\ LET a == thr[t].npc_id
       IN IF a \in DOMAIN mem
          THEN /\ thr' = [thr EXCEPT ![t].pc = "mutate"]
               /\ UNCHANGED mem
          ELSE IF /\ disk.state = "ok"
                  /\ a \in DOMAIN disk.data
                  /\ StoreDataValid(disk.data[a])
          THEN Assign(t, a, StoreFromData(disk.data[a]))
          ELSE /\ thr' = [thr EXCEPT ![t].pc = "create"]
               /\ UNCHANGED mem

(* load_enhanced_memory, creation of the fresh store and its save *)
TCreate(t) ==
    /\ thr[t].pc = "create"
    /\ Assign(t, thr[t].npc_id, EnhancedMemoryStore(thr[t].npc_id, clock))
    /\ disk' = write_file(snapshot_memories(mem'))
    /\ UNCHANGED <<clock, steps, ret, last, hist>>

(* record_event: the event is built and added to the store the thread      *)
(* holds                                                                   *)
TMutate(t) ==
    /\ thr[t].pc = "mutate"
    /\ LET a == thr[t].npc_id
       IN /\ IF thr[t].detached
             THEN /\ thr' = [thr EXCEPT
                                ![t].pc = "snapshot",
                                ![t].own = ApplyEvent(@, thr[t].kind,
                                                      thr[t].data, clock)]
                  /\ UNCHANGED mem
             ELSE /\ thr' = [thr EXCEPT ![t].pc = "snapshot"]
                  /\ mem' = Put(mem, a, ApplyEvent(mem[a], thr[t].kind,
                                                   thr[t].data, clock))
          /\ hist' = [hist EXCEPT ![a][thr[t].kind] =
                         Append(@, EventOf(thr[t].kind, thr[t].data, clock))]
    /\ clock' = clock + 1
    /\ UNCHANGED <<disk, steps, ret, last>>

(* save_enhanced_memory, first half: all_memories is computed *)
TSnapshot(t) ==
    /\ thr[t].pc = "snapshot"
    /\ thr' = [thr EXCEPT ![t].pc = "write",
                          ![t].snap = snapshot_memories(mem)]
    /\ UNCHANGED <<mem, disk, clock, steps, ret, last, hist>>

(* save_enhanced_memory, second half: the file is written; the response *)
TWrite(t) ==
    /\ thr[t].pc = "write"
    /\ disk' = write_file(thr[t].snap)
    /\ thr' = [thr EXCEPT ![t].pc = "done"]
    /\ steps' = steps + 1
    /\ ret' = Response(200, "recorded")
    /\ last' = Request("record", thr[t].npc_id, thr[t].kind, thr[t].data,
                       thr[t].data.entity_name, "none", << "ok" >>, TRUE,
                       NoStore)
    /\ UNCHANGED <<mem, clock, hist>>

----------------------------------------------------------------------------
(* Spec: the store manager with a storage whose writes succeed.  The       *)
(* server starts for the first time with no file.                          *)

Init ==
    /\ mem = << >>
    /\ disk = NoFile
    /\ clock = 0
    /\ steps = 0
    /\ ret = Response(0, "none")
    /\ last = NoRequest
    /\ hist = [a \in Agents |-> EmptyHist]
    /\ thr = NoThreads

AttackBy(name, dmg) == Payload("attacked_by", name, "player", dmg, NoneVal)
Social(et, name) == Payload(et, name, NoneVal, NoDamage, NoneVal)
Env(et) == Payload(et, NoneVal, NoneVal, NoDamage, "something happened")

(* Requests of the store-manager specifications: <<kind, data>> *)
ManagerEvents ==
    { <<"combat", AttackBy("Steve", Dmg(5))>>,
      <<"social", Social("gift_received", "Steve")>>,
      <<"environmental", Env("explosion")>>,
      <<"combat", Payload("stabbed", "Steve", "player", NoDamage, NoneVal)>>,
      <<"trade", Social("chat", "Steve")>> }

NpcIds == Agents \cup {NoneVal}

Next ==
    \/ \E a \in NpcIds, ev \in ManagerEvents :
          /\ steps < MaxEvents
          /\ RecordEvent(a, ev[1], ev[2], "ok", "ok")
    \/ \E a \in NpcIds, e \in Entities \cup {NoneVal} :
          GetRelationship(a, e, "ok")
    \/ \E a \in NpcIds : GetMemorySummary(a, "ok")
    \/ \E a \in NpcIds : DeleteNpc(a, "ok")
    \/ Restart

Spec == Init /\ [][Next]_vars

----------------------------------------------------------------------------
(* SpecIO: the store manager with a storage whose writes may fail *)

IOEvents ==
    { <<"combat", AttackBy("Steve", Dmg(5))>>,
      <<"social", Social("gift_received", "Steve")>>,
      <<"combat", Payload("stabbed", "Steve", "player", NoDamage, NoneVal)>> }

NextIO ==
    \/ \E a \in Agents, ev \in IOEvents, w1, w2 \in WriteOutcomes :
          /\ steps < MaxEvents
          /\ RecordEvent(a, ev[1], ev[2], w1, w2)
    \/ \E a \in Agents, e \in Entities, w1 \in WriteOutcomes :
          GetRelationship(a, e, w1)
    \/ \E a \in Agents, w1 \in WriteOutcomes : GetMemorySummary(a, w1)
    \/ \E a \in Agents, w2 \in WriteOutcomes : DeleteNpc(a, w2)
    \/ Restart

SpecIO == Init /\ [][NextIO]_vars

----------------------------------------------------------------------------
(* Long histories.  The initial states are the states the server is in     *)
(* after it has served, from its first start, a given sequence of          *)
(* event-ingestion requests for one npc: they are computed by replaying    *)
(* the requests through the update operations above.                       *)

Rep(x, n) == [i \in 1..n |-> x]

(* The store after the requests evs[lo..hi], request i arriving at time   *)
(* i - 1.  The range is halved, and the first half is evaluated before the *)
(* second starts, so that the evaluation stays shallow.                    *)
RECURSIVE ReplayRange(_, _, _, _)
ReplayRange(m, evs, lo, hi) ==
    IF lo > hi THEN m
    ELSE IF lo = hi THEN ApplyEvent(m, evs[lo][1], evs[lo][2], lo - 1)
    ELSE LET mid == (lo + hi) \div 2
         IN CHOOSE r \in { ReplayRange(x, evs, mid + 1, hi) :
                               x \in {ReplayRange(m, evs, lo, mid)} } : TRUE

ReplayFrom(m, evs) == ReplayRange(m, evs, 1, Len(evs))

IsCombatReq(p) == p[1] = "combat"
IsSocialReq(p) == p[1] = "social"
IsEnvironmentalReq(p) == p[1] = "environmental"

Stamped(evs) == [i \in 1..Len(evs) |-> <<evs[i][1], evs[i][2], i - 1>>]

EventsOf(reqs) ==
    [i \in 1..Len(reqs) |-> EventOf(reqs[i][1], reqs[i][2], reqs[i][3])]

(* The events of each kind among the requests evs, in arrival order *)
HistOf(evs) ==
    [combat |-> EventsOf(SelectSeq(Stamped(evs), IsCombatReq)),
     social |-> EventsOf(SelectSeq(Stamped(evs), IsSocialReq)),
     environmental |-> EventsOf(SelectSeq(Stamped(evs), IsEnvironmentalReq))]

TheNpc == "npcA"

InitAfter(evs) ==
    IF evs = << >> THEN Init
    ELSE LET m == ReplayFrom(EnhancedMemoryStore(TheNpc, 0), evs)
             c == [a \in {TheNpc} |-> m]
         IN /\ mem = c
            /\ disk = save_enhanced_memory(c, NoFile, "ok")
            /\ clock = Len(evs)
            /\ steps = 0
            /\ ret = Response(0, "none")
            /\ last = NoRequest
            /\ hist = [a \in Agents |->
                          IF a = TheNpc THEN HistOf(evs)
                          ELSE EmptyHist]
            /\ thr = NoThreads

(* SpecLedger: score updates far from a fresh ledger *)

LedgerPrefixes ==
    { << >>,
      Rep(<<"combat", AttackBy("Steve", Dmg(5))>>, MidPrefix),
      Rep(<<"social", Social("gift_received", "Steve")>>, MidPrefix),
      Rep(<<"combat", AttackBy("Steve", Dmg(5))>>, ESCALATION_ATTACKS)
          \o Rep(<<"social", Social("gift_received", "Steve")>>, 2) }

LedgerEvents ==
    { <<"combat", AttackBy("Steve", Dmg(5))>>,
      <<"combat", AttackBy("Steve", NoDamage)>>,
      <<"combat", AttackBy("Alex", Dmg(8))>>,
      <<"combat", AttackBy("Alex", Dmg(10))>>,
      <<"combat", Payload("attacked", "Steve", "player", Dmg(5), NoneVal)>>,
      <<"combat", Payload("witnessed_death", "Steve", "mob", NoDamage, NoneVal)>>,
      <<"social", Social("gift_received", "Steve")>>,
      <<"social", Social("gift_received", "Alex")>>,
      <<"social", Social("gift_given", "Steve")>>,
      <<"social", Social("helped", "Steve")>>,
      <<"social", Social("chat", "Steve")>>,
      <<"social", Social("ignored", "Steve")>>,
      <<"environmental", Env("explosion")>> }

InitLedger == \E evs \in LedgerPrefixes : InitAfter(evs)

NextLedger ==
    \/ \E ev \in LedgerEvents :
          /\ steps < MaxSteps
          /\ RecordEvent(TheNpc, ev[1], ev[2], "ok", "ok")
    \/ \E e \in Entities : GetRelationship(TheNpc, e, "ok")
    \/ GetMemorySummary(TheNpc, "ok")

SpecLedger == InitLedger /\ [][NextLedger]_vars

(* SpecAttacks: one counterpart attacking again and again *)

AttackPrefixes ==
    { Rep(<<"combat", AttackBy("Steve", d)>>, k) :
          k \in 0..MaxAttacks, d \in {Dmg(5), NoDamage} }

AttackEvents ==
    { <<"combat", AttackBy("Steve", Dmg(5))>>,
      <<"combat", AttackBy("Steve", NoDamage)>>,
      <<"combat", AttackBy("Alex", Dmg(5))>>,
      <<"social", Social("gift_received", "Steve")>> }

InitAttacks == \E evs \in AttackPrefixes : InitAfter(evs)

NextAttacks ==
    \/ \E ev \in AttackEvents :
          /\ steps < MaxAttackSteps
          /\ RecordEvent(TheNpc, ev[1], ev[2], "ok", "ok")
    \/ \E e \in Entities : GetRelationship(TheNpc, e, "ok")

SpecAttacks == InitAttacks /\ [][NextAttacks]_vars

(* SpecInteract: conversations, on a fresh store and on a full social log *)

InteractPrefixes ==
    { << >>, Rep(<<"social", Social("chat", "Steve")>>, MAX_LOG) }

Players == {"Steve", SystemPlayer, NoneVal, Absent}

InteractEvents ==
    { <<"combat", AttackBy("Steve", Dmg(5))>>,
      <<"social", Social("gift_received", "Steve")>> }

InitInteract == \E evs \in InteractPrefixes : InitAfter(evs)

NextInteract ==
    \/ \E npc_id \in {TheNpc, NoneVal} : \E p \in Players :
       \E has_message \in BOOLEAN : \E outcome \in GenOutcomes :
       \E w1 \in WriteOutcomes : \E w2 \in WriteOutcomes :
          /\ steps < MaxInteractSteps
          /\ NpcInteract(npc_id, p, has_message, outcome, w1, w2)
    \/ \E ev \in InteractEvents :
          /\ steps < MaxInteractSteps
          /\ RecordEvent(TheNpc, ev[1], ev[2], "ok", "ok")
    \/ Restart

SpecInteract == InitInteract /\ [][NextInteract]_vars

(* SpecLog: event logs around their capacity *)

LogPrefixes ==
    { << >>,
      Rep(<<"combat", AttackBy("Steve", Dmg(5))>>, MAX_LOG - 1),
      Rep(<<"social", Social("chat", "Steve")>>, MAX_LOG - 1),
      Rep(<<"environmental", Env("block_broken")>>, MAX_LOG - 1) }

LogEvents ==
    { <<"combat", AttackBy("Steve", NoDamage)>>,
      <<"combat", Payload("witnessed_death", "Alex", "mob", NoDamage, NoneVal)>>,
      <<"social", Social("gift_received", "Alex")>>,
      <<"social", Social("ignored", "Steve")>>,
      <<"environmental", Env("explosion")>>,
      <<"environmental", Env("mob_spawned")>> }

InitLog == \E evs \in LogPrefixes : InitAfter(evs)

NextLog ==
    \E ev \in LogEvents :
        /\ steps < MaxLogSteps
        /\ RecordEvent(TheNpc, ev[1], ev[2], "ok", "ok")

SpecLog == InitLog /\ [][NextLog]_vars

(* SpecCorrupt: the store manager when an entry of the file is damaged     *)
(* while the server is down                                                *)

(* The entry of npc_id in the file no longer validates: its "npc_id" is    *)
(* null.  The file as a whole still parses.                                *)
CorruptEntry(npc_id) ==
    /\ mem = << >>
    /\ npc_id \in DOMAIN disk.data
    /\ disk.state = "ok"
    /\ StoreDataValid(disk.data[npc_id])
    /\ disk' = [disk EXCEPT !.data[npc_id].npc_id = NoneVal]
    /\ ret' = Response(0, "none")
    /\ last' = Request("corrupt", npc_id, NoneVal, NoPayload, NoneVal,
                       "none", << >>, FALSE, NoStore)
    /\ UNCHANGED <<mem, clock, steps, hist, thr>>

CorruptEvents ==
    { <<"combat", AttackBy("Steve", Dmg(5))>>,
      <<"social", Social("gift_received", "Steve")>> }

NextCorrupt ==
    \/ \E a \in Agents, ev \in CorruptEvents :
          /\ steps < MaxEvents
          /\ RecordEvent(a, ev[1], ev[2], "ok", "ok")
    \/ \E a \in Agents : GetMemorySummary(a, "ok")
    \/ Restart
    \/ \E a \in Agents : CorruptEntry(a)

SpecCorrupt == Init /\ [][NextCorrupt]_vars

(* SpecThreads: two event ingestions served at the same time, for the     *)
(* same npc or for two npcs, from the first start of the server            *)

ThreadEvents ==
    { <<"combat", AttackBy("Steve", Dmg(5))>>,
      <<"social", Social("gift_received", "Steve")>> }

InitThreads ==
    /\ mem = << >>
    /\ disk = NoFile
    /\ clock = 0
    /\ steps = 0
    /\ ret = Response(0, "none")
    /\ last = NoRequest
    /\ hist = [a \in Agents |-> EmptyHist]
    /\ thr \in [Threads -> { Call(a, ev[1], ev[2]) :
                                a \in Agents, ev \in ThreadEvents }]

NextThreads ==
    \E t \in Threads :
        \/ TLookup(t)
        \/ TCreate(t)
        \/ TMutate(t)
        \/ TSnapshot(t)
        \/ TWrite(t)

SpecThreads == InitThreads /\ [][NextThreads]_vars

(* SpecStatus: the derived status and sentiment over the whole range of   *)
(* the scores.  The server starts on a file that holds one store with one  *)
(* ledger; the ledger's trust is any value of its range, its fear and      *)
(* affection are values at and around the thresholds.                      *)

SampleScores == {0, 30, 31, 60, 61, 100}

LedgerWith(trust, fear, affection) ==
    [Relationship("Steve", "player", 0) EXCEPT
        !.trust = trust, !.fear = fear, !.affection = affection]

InitStatus ==
    \E t \in TRUST_MIN..TRUST_MAX, f \in SampleScores, af \in SampleScores :
        LET m == [EnhancedMemoryStore(TheNpc, 0) EXCEPT
                     !.relationships = ("Steve" :> LedgerWith(t, f, af))]
        IN /\ mem = << >>
           /\ disk = write_file(snapshot_memories(TheNpc :> m))
           /\ clock = 1
           /\ steps = 0
           /\ ret = Response(0, "none")
           /\ last = NoRequest
           /\ hist = [a \in Agents |-> EmptyHist]
           /\ thr = NoThreads

NextStatus == \E e \in Entities : GetRelationship(TheNpc, e, "ok")

SpecStatus == InitStatus /\ [][NextStatus]_vars

(* SpecScenario: short histories on a fresh store, with the events of the  *)
(* walkthroughs (example_combat_scenario, example_social_scenario)         *)

ScenarioEvents ==
    { <<"combat", AttackBy("Steve", Dmg(3))>>,
      <<"combat", AttackBy("Steve", Dmg(4))>>,
      <<"combat", AttackBy("Steve", Dmg(5))>>,
      <<"social", Social("gift_received", "Alex")>>,
      <<"social", Social("gift_received", "Steve")>>,
      <<"social", Social("chat", "Alex")>> }

NextScenario ==
    \/ \E ev \in ScenarioEvents :
          /\ steps < MaxScenarioSteps
          /\ RecordEvent(TheNpc, ev[1], ev[2], "ok", "ok")
    \/ \E e \in Entities : GetRelationship(TheNpc, e, "ok")

SpecScenario == Init /\ [][NextScenario]_vars

(* SpecIngest: event ingestion with malformed and unusual payloads, on a   *)
(* store with a history, on a never-seen npc, and after a restart          *)

IngestPrefixes ==
    { << >>,
      Rep(<<"combat", AttackBy("Steve", Dmg(5))>>, ESCALATION_ATTACKS)
          \o Rep(<<"social", Social("gift_received", "Steve")>>, 2) }

IngestEvents ==
    { <<"combat", AttackBy("Steve", Dmg(5))>>,
      <<"combat", AttackBy("Steve", Dmg(-4))>>,
      <<"combat", Payload("attacked", "Steve", "player", Dmg(-4), NoneVal)>>,
      <<"social", Social("gift_received", "Steve")>>,
      <<"combat", Payload("stabbed", "Steve", "player", Dmg(5), NoneVal)>>,
      <<"combat", Payload("attacked_by", NoneVal, "player", Dmg(5), NoneVal)>>,
      <<"social", Social("hugged", "Steve")>>,
      <<"social", Social("gift_received", NoneVal)>>,
      <<"environmental", Env("rain")>>,
      <<"environmental", Payload("explosion", NoneVal, NoneVal, NoDamage, NoneVal)>> }

InitIngest == \E evs \in IngestPrefixes : InitAfter(evs)

NextIngest ==
    \/ \E a \in Agents, ev \in IngestEvents :
          /\ steps < MaxIngestSteps
          /\ RecordEvent(a, ev[1], ev[2], "ok", "ok")
    \/ Restart

SpecIngest == InitIngest /\ [][NextIngest]_vars

----------------------------------------------------------------------------
(* Properties *)

IsRecorded(et) ==
    /\ last.op = "record"
    /\ last.accepted
    /\ last.data.event_type = et

(* The ledger the last request named, as it is now *)
Ledger == mem[last.npc_id].relationships[last.entity]

(* C1: after every recordCombat or recordSocial, for every agent and       *)
(* counterpart, trust is in [-100,100], fear in [0,100] and affection in   *)
(* [0,100].                                                                *)
C1_ScoresInRange ==
    \A a \in DOMAIN mem :
        \A e \in DOMAIN mem[a].relationships :
            LET r == mem[a].relationships[e]
            IN /\ -100 <= r.trust /\ r.trust <= 100
               /\ 0 <= r.fear /\ r.fear <= 100
               /\ 0 <= r.affection /\ r.affection <= 100

(* A gift arrived at a ledger whose trust was already 100 *)
C1_Witness ==
    /\ IsRecorded("gift_received")
    /\ last.has_before
    /\ last.before.trust = 100
    /\ Ledger.trust = 100

(* The last min(Len(h), n) entries of h, in order *)
LastOf(h, n) ==
    LET k == Min2(Len(h), n)
    IN [i \in 1..k |-> h[Len(h) - k + i]]

(* C2: for each agent and kind the log never holds more than 50 entries,   *)
(* and after n events of the kind it holds exactly the last min(n,50) of   *)
(* them in arrival order.                                                  *)
C2_LogsBoundedFifo ==
    \A a \in DOMAIN mem :
        /\ Len(mem[a].combat_events) <= 50
        /\ Len(mem[a].social_events) <= 50
        /\ Len(mem[a].environmental_events) <= 50
        /\ mem[a].combat_events = LastOf(hist[a].combat, 50)
        /\ mem[a].social_events = LastOf(hist[a].social, 50)
        /\ mem[a].environmental_events = LastOf(hist[a].environmental, 50)

(* More than 50 combat events were recorded: the oldest were evicted *)
C2_Witness ==
    /\ TheNpc \in DOMAIN mem
    /\ Len(hist[TheNpc].combat) > 50
    /\ Len(mem[TheNpc].combat_events) = 50
    /\ mem[TheNpc].combat_events[1] = hist[TheNpc].combat[Len(hist[TheNpc].combat) - 49]

(* The number of attacked_by events of counterpart e among the events h *)
AttacksBy(h, e) ==
    Cardinality({ i \in DOMAIN h : /\ h[i].event_type = "attacked_by"
                                   /\ h[i].entity_name = e })

(* C3: exactly on the 3rd attacked_by event of a counterpart, whatever     *)
(* the trust was before, trust afterwards is at most -40 and               *)
(* current_threat is that counterpart.                                     *)
C3_ThirdAttackEscalates ==
    (IsRecorded("attacked_by")
        /\ AttacksBy(hist[last.npc_id].combat, last.entity) = 3)
    => /\ Ledger.trust <= -40
       /\ mem[last.npc_id].current_threat = last.entity

(* The third attack came from a counterpart trusted thanks to gifts *)
C3_Witness ==
    /\ IsRecorded("attacked_by")
    /\ AttacksBy(hist[last.npc_id].combat, last.entity) = 3
    /\ last.has_before
    /\ last.before.trust > 15
    /\ last.before.gifts_received > 0
    /\ Ledger.trust = -40
    /\ mem[last.npc_id].current_threat = last.entity

IsLaterAttack ==
    /\ IsRecorded("attacked_by")
    /\ last.has_before
    /\ last.before.times_attacked_by >= 3

(* C4 as claimed: on the 4th or a later attacked_by event the floor is not *)
(* applied: trust is the previous trust minus 15, clamped to [-100,100].   *)
C4_FloorOnlyOnce ==
    IsLaterAttack
    => Ledger.trust = Max2(-100, Min2(100, last.before.trust - 15))

(* C4 as amended: on the 4th or a later attacked_by event the floor is     *)
(* applied again: trust is min(previous trust - 15, -40), not below -100.  *)
C4_FloorEveryAttack ==
    IsLaterAttack
    => Ledger.trust = Max2(-100, Min2(last.before.trust - 15, -40))

(* A later attack that alone would leave trust above -40 *)
C4_Witness ==
    /\ IsLaterAttack
    /\ last.before.trust - 15 > -40
    /\ Ledger.trust = -40

IsDefaultStore(m, npc_id) ==
    /\ m.npc_id = npc_id
    /\ m.combat_events = << >>
    /\ m.social_events = << >>
    /\ m.environmental_events = << >>
    /\ DOMAIN m.relationships = {}
    /\ m.current_threat = NoneVal
    /\ m.current_goal = "idle"
    /\ m.total_interactions = 0
    /\ m.total_combat_events = 0

IsQuery(op) == op \in {"relationship", "summary"}

(* C5: after delete(agentId), a subsequent resolve(agentId) returns a      *)
(* fresh default store, whatever events were recorded for the agent        *)
(* before.  The resolve is the one of a query that directly follows the    *)
(* delete request.                                                         *)
C5_DeleteThenFresh ==
    [][(/\ last.op = "delete"
        /\ last.npc_id \in Agents
        /\ IsQuery(last'.op)
        /\ last'.source # "none"
        /\ last'.npc_id = last.npc_id)
       => /\ last.npc_id \in DOMAIN mem'
          /\ IsDefaultStore(mem'[last.npc_id], last.npc_id)]_vars

(* The npc ids of the persisted collection *)
Persisted(file) == IF file.state = "ok" THEN DOMAIN file.data ELSE {}

C8_FreshIsPersisted ==
    (last.source = "fresh" /\ ~last.accepted)
    => /\ last.npc_id \in DOMAIN mem
       /\ IsDefaultStore(mem[last.npc_id], last.npc_id)
       /\ last.npc_id \in Persisted(disk)
       /\ IsDefaultStore(disk.data[last.npc_id], last.npc_id)
       /\ disk.data[last.npc_id] = model_dump(mem[last.npc_id])

(* A query created the store of a second npc *)
C8_Witness ==
    /\ IsQuery(last.op)
    /\ last.source = "fresh"
    /\ Cardinality(Persisted(disk)) = 2

LastWriteOk == last.writes # << >> /\ last.writes[Len(last.writes)] = "ok"

(* C9: after every mutating operation (event ingestion, fresh creation,    *)
(* delete) whose write did not fail, the persisted entry of every agent    *)
(* held in memory equals the agent's in-memory store, and persisting       *)
(* again leaves the persisted collection unchanged.                        *)
C9_WriteThrough ==
    LastWriteOk
    => /\ disk.state = "ok"
       /\ \A a \in DOMAIN mem :
              /\ a \in DOMAIN disk.data
              /\ StoreDataValid(disk.data[a])
              /\ StoreFromData(disk.data[a]) = mem[a]
       /\ save_enhanced_memory(mem, disk, "ok") = disk

(* An event was saved after the write of the fresh creation had failed *)
C9_Witness ==
    /\ IsRecorded("attacked_by")
    /\ last.writes = << "dump_fails", "ok" >>
    /\ Cardinality(DOMAIN mem) = 2
    /\ disk.state = "ok"

AggressiveAsSpecified(m, e) ==
    /\ e \in DOMAIN m.relationships
    /\ m.relationships[e].trust < -30
    /\ m.relationships[e].fear < 70
    /\ m.relationships[e].times_attacked_by >= 2

(* C10: should_be_aggressive(store, counterpart) is true iff a ledger for  *)
(* the counterpart exists and trust < -30 and fear < 70 and                *)
(* times_attacked_by >= 2; the responses report that value.                *)
C10_Aggressive ==
    /\ \A a \in DOMAIN mem : \A e \in Entities :
           should_be_aggressive(mem[a], e) <=> AggressiveAsSpecified(mem[a], e)
    /\ (ret.has_rel /\ ret.code = 200)
       => (ret.rel.should_attack
              <=> AggressiveAsSpecified(mem[last.npc_id], ret.rel.entity))

(* A relationship query answered that the npc should attack *)
C10_Witness ==
    /\ last.op = "relationship"
    /\ ret.has_rel
    /\ ret.rel.should_attack
    /\ "Alex" \in DOMAIN mem[last.npc_id].relationships
    /\ ~should_be_aggressive(mem[last.npc_id], "Alex")

(* C11: in every reachable state should_be_aggressive(counterpart) is      *)
(* false if fewer than 2 attacked_by events have been recorded for that    *)
(* counterpart since the store was created, whatever else was recorded.    *)
C11_NoAggressionBeforeSecondAttack ==
    \A a \in DOMAIN mem : \A e \in Entities :
        AttacksBy(hist[a].combat, e) < 2 => ~should_be_aggressive(mem[a], e)

(* A counterpart has attacked once and is distrusted, while the npc is     *)
(* aggressive towards another counterpart                                  *)
C11_Witness ==
    /\ IsRecorded("attacked_by")
    /\ last.entity = "Alex"
    /\ AttacksBy(hist[last.npc_id].combat, "Alex") = 1
    /\ Ledger.trust = -15
    /\ ~should_be_aggressive(mem[last.npc_id], "Alex")
    /\ should_be_aggressive(mem[last.npc_id], "Steve")

AvoidAsSpecified(m, e) ==
    /\ e \in DOMAIN m.relationships
    /\ \/ m.relationships[e].fear > 50
       \/ /\ m.relationships[e].trust < -20
          /\ m.relationships[e].total_damage_received > 15

(* The indices of the events of h that name counterpart e *)
Naming(h, e) == { i \in DOMAIN h : h[i].entity_name = e }

(* The only events naming e are two attacked_by events, damages 8 and 10 *)
TwoHeavyAttacks(a, e) ==
    /\ Naming(hist[a].social, e) = {}
    /\ Cardinality(Naming(hist[a].combat, e)) = 2
    /\ \A i \in Naming(hist[a].combat, e) :
           hist[a].combat[i].event_type = "attacked_by"
    /\ { hist[a].combat[i].damage : i \in Naming(hist[a].combat, e) }
           = { <<8>>, <<10>> }

(* C12: should_avoid(store, counterpart) is true iff a ledger for the      *)
(* counterpart exists and (fear > 50 or (trust < -20 and                   *)
(* total_damage_received > 15)); two attacked_by events with damages 8 and *)
(* 10 from a new counterpart make it true.                                 *)
C12_Avoid ==
    \A a \in DOMAIN mem : \A e \in Entities :
        /\ should_avoid(mem[a], e) <=> AvoidAsSpecified(mem[a], e)
        /\ TwoHeavyAttacks(a, e) => should_avoid(mem[a], e)

(* The second heavy attack has just been answered with should_avoid, with  *)
(* a fear of only 20                                                       *)
C12_Witness ==
    /\ IsRecorded("attacked_by")
    /\ TwoHeavyAttacks(last.npc_id, last.entity)
    /\ ret.has_rel
    /\ ret.rel.should_avoid
    /\ ret.rel.fear = 20
    /\ ret.rel.trust = -30

(* The events since the store was created are exactly three attacked_by    *)
(* events of counterpart e with damages 3, 4 and 5, in any order           *)
ThreeAttacksOnly(a, e) ==
    /\ hist[a].social = << >>
    /\ hist[a].environmental = << >>
    /\ Len(hist[a].combat) = 3
    /\ \A i \in 1..3 : /\ hist[a].combat[i].event_type = "attacked_by"
                       /\ hist[a].combat[i].entity_name = e
    /\ { hist[a].combat[i].damage : i \in 1..3 } = { <<3>>, <<4>>, <<5>> }

(* C13: from a fresh store, three attacked_by events from one counterpart  *)
(* with damages 3, 4 and 5 and no other event give that ledger             *)
(* times_attacked_by = 3, total_damage_received = 12 and trust <= -40,     *)
(* and should_be_aggressive for that counterpart is true.                  *)
C13_RevengeScenario ==
    \A a \in DOMAIN mem : \A e \in Entities :
        ThreeAttacksOnly(a, e)
        => /\ e \in DOMAIN mem[a].relationships
           /\ mem[a].relationships[e].times_attacked_by = 3
           /\ mem[a].relationships[e].total_damage_received = 12
           /\ mem[a].relationships[e].trust <= -40
           /\ should_be_aggressive(mem[a], e)

(* After the three attacks the relationship query recommends to attack *)
C13_Witness ==
    /\ last.op = "relationship"
    /\ ThreeAttacksOnly(last.npc_id, last.entity)
    /\ ret.has_rel
    /\ ret.rel.should_attack
    /\ ret.rel.trust = -45
    /\ ret.status = "hostile"

(* The events since the store was created are exactly two gift_received    *)
(* events of counterpart e                                                 *)
TwoGiftsOnly(a, e) ==
    /\ hist[a].combat = << >>
    /\ hist[a].environmental = << >>
    /\ Len(hist[a].social) = 2
    /\ \A i \in 1..2 : /\ hist[a].social[i].event_type = "gift_received"
                       /\ hist[a].social[i].entity_name = e

(* C14: from a fresh store, two gift_received events from one counterpart  *)
(* and no other event give that ledger trust = 20, affection = 30,         *)
(* fear = 0 and gifts_received = 2.                                        *)
C14_FriendshipScenario ==
    \A a \in DOMAIN mem : \A e \in Entities :
        TwoGiftsOnly(a, e)
        => /\ e \in DOMAIN mem[a].relationships
           /\ mem[a].relationships[e].trust = 20
           /\ mem[a].relationships[e].affection = 30
           /\ mem[a].relationships[e].fear = 0
           /\ mem[a].relationships[e].gifts_received = 2

(* The second gift has just been answered: the counterpart is friendly *)
C14_Witness ==
    /\ IsRecorded("gift_received")
    /\ TwoGiftsOnly(last.npc_id, last.entity)
    /\ ret.has_rel
    /\ ret.rel.trust = 20
    /\ ret.rel.affection = 30
    /\ ret.rel.status = "friendly"

(* The counterparts named by the combat and social events recorded for     *)
(* agent a since its store was created                                     *)
NamedFor(a) ==
    { hist[a].combat[i].entity_name : i \in DOMAIN hist[a].combat }
        \cup { hist[a].social[i].entity_name : i \in DOMAIN hist[a].social }

(* C15: a relationship query for a counterpart that no combat or social    *)
(* event of that agent has ever named returns the explicit unknown         *)
(* result, never a zero-valued ledger snapshot, and the query itself does  *)
(* not create a ledger for that counterpart.                               *)
C15_UnknownCounterpart ==
    (/\ last.op = "relationship"
     /\ last.source # "none"
     /\ last.entity \notin NamedFor(last.npc_id))
    => /\ ret.code = 200
       /\ ret.status = "unknown"
       /\ ~ret.has_rel
       /\ last.entity \notin DOMAIN mem[last.npc_id].relationships

(* The store knows another counterpart, the queried one is unknown *)
C15_Witness ==
    /\ last.op = "relationship"
    /\ last.entity = "Alex"
    /\ ret.status = "unknown"
    /\ "Steve" \in DOMAIN mem[last.npc_id].relationships
    /\ "Alex" \notin DOMAIN mem[last.npc_id].relationships

(* C16: a ledger for counterpart c exists in an agent's store iff at least *)
(* one combat or social event naming c has been recorded for that agent    *)
(* since the store was created; the set of ledger keys of a store only     *)
(* grows until the store is deleted.                                       *)
C16_LedgerLifecycle ==
    /\ [](/\ \A a \in DOMAIN mem :
                 DOMAIN mem[a].relationships = NamedFor(a)
          /\ \A a \in Persisted(disk) :
                 DOMAIN disk.data[a].relationships = NamedFor(a))
    /\ [][\A a \in DOMAIN mem \cap DOMAIN mem' :
              DOMAIN mem[a].relationships
                  \subseteq DOMAIN mem'[a].relationships]_vars

(* After a restart the store came back from the file with its ledger, and  *)
(* a second event of the counterpart found that ledger                     *)
C16_Witness ==
    /\ IsRecorded("gift_received")
    /\ last.source = "file"
    /\ last.has_before
    /\ last.before.times_attacked_by = 1
    /\ DOMAIN mem[last.npc_id].relationships = {"Steve"}

Malformed(kind, d) ==
    \/ /\ kind = "combat"
       /\ \/ d.event_type \notin {"attacked_by", "attacked", "witnessed_death"}
          \/ d.entity_name = NoneVal
          \/ d.entity_type = NoneVal
    \/ /\ kind = "social"
       /\ \/ d.event_type \notin {"chat", "gift_received", "gift_given",
                                  "helped", "ignored"}
          \/ d.entity_name = NoneVal
    \/ /\ kind = "environmental"
       /\ \/ d.event_type \notin {"block_broken", "block_placed",
                                  "explosion", "mob_spawned"}
          \/ d.description = NoneVal

(* C18: an event-ingestion call whose payload fails validation is rejected *)
(* before any mutation: the agent's logs, counters, ledgers and scalars    *)
(* are the same after the call as before it (the store it had in memory,   *)
(* else the persisted one, else the default store of a never-seen agent),  *)
(* and no other store changes.                                             *)
C18_RejectedBeforeMutation ==
    [][(/\ last'.op = "record"
        /\ steps' = steps + 1
        /\ last'.npc_id # NoneVal
        /\ Malformed(last'.kind, last'.data))
       => /\ ret'.code = 500
          /\ ~ret'.has_rel
          /\ hist'[last'.npc_id] =
                 IF last'.source = "fresh" THEN EmptyHist
                 ELSE hist[last'.npc_id]
          /\ last'.npc_id \in DOMAIN mem'
          /\ IF last'.npc_id \in DOMAIN mem
             THEN mem'[last'.npc_id] = mem[last'.npc_id] /\ disk' = disk
             ELSE IF last'.npc_id \in Persisted(disk)
             THEN /\ mem'[last'.npc_id] = StoreFromData(disk.data[last'.npc_id])
                  /\ disk' = disk
             ELSE IsDefaultStore(mem'[last'.npc_id], last'.npc_id)
          /\ \A b \in DOMAIN mem \ {last'.npc_id} :
                 b \in DOMAIN mem' /\ mem'[b] = mem[b]]_vars

(* A malformed event for a store with a history was answered with an       *)
(* error, after the store had been loaded from the file                    *)
C18_Witness ==
    /\ last.op = "record"
    /\ Malformed(last.kind, last.data)
    /\ last.data.entity_name = NoneVal
    /\ last.source = "file"
    /\ ret.code = 500
    /\ mem[last.npc_id].total_combat_events >= 3
    /\ mem[last.npc_id] = StoreFromData(disk.data[last.npc_id])

(* C19: an event-ingestion call whose kind is not one of combat, social,   *)
(* environmental is rejected with an error result; it is never             *)
(* acknowledged as recorded.                                               *)
C19_UnknownKindRejected ==
    (/\ last.op = "record"
     /\ last.npc_id # NoneVal
     /\ last.kind \notin {"combat", "social", "environmental"})
    => /\ ret.code # 200
       /\ ret.status # "recorded"

(* C20: damage is non-negative: a combat event with negative damage is     *)
(* rejected before mutation, so in every reachable state                   *)
(* total_damage_received and total_damage_dealt of every ledger are >= 0.  *)
C20_DamageNonNegative ==
    /\ \A a \in DOMAIN mem : \A e \in DOMAIN mem[a].relationships :
           /\ mem[a].relationships[e].total_damage_received >= 0
           /\ mem[a].relationships[e].total_damage_dealt >= 0
    /\ (/\ last.op = "record"
        /\ last.kind = "combat"
        /\ last.data.damage # << >>
        /\ last.data.damage[1] < 0)
       => ~last.accepted

(* The log of a store that holds the events of the given kind *)
LogOf(m, kind) ==
    IF kind = "combat" THEN m.combat_events
    ELSE IF kind = "social" THEN m.social_events
    ELSE m.environmental_events

LastWriteFailed == last.writes # << >> /\ last.writes[Len(last.writes)] # "ok"

(* C21: if the persistence write fails during an operation, the in-memory  *)
(* mutation already applied is retained and not rolled back, and every     *)
(* later read in the same process returns the state held in memory: a      *)
(* failed write leaves the recorded event, the created store or the        *)
(* removal in place; a query answers from the in-memory store; and a store *)
(* in memory changes only by an accepted event for it, a delete or a       *)
(* restart.                                                                *)
C21_MutationRetained ==
    [][/\ (/\ steps' = steps + 1
           /\ last'.accepted
           /\ LastWriteFailed')
          => /\ last'.npc_id \in DOMAIN mem'
             /\ LogOf(mem'[last'.npc_id], last'.kind) # << >>
             /\ LET log == LogOf(mem'[last'.npc_id], last'.kind)
                IN log[Len(log)] = EventOf(last'.kind, last'.data, clock)
             /\ last'.kind \in {"combat", "social"}
                => last'.entity \in DOMAIN mem'[last'.npc_id].relationships
       /\ (last'.source = "fresh") => last'.npc_id \in DOMAIN mem'
       /\ (last'.op = "delete" /\ last'.writes # << >>)
              => last'.npc_id \notin DOMAIN mem'
       /\ (IsQuery(last'.op) /\ last'.npc_id \in DOMAIN mem)
          => /\ mem' = mem
             /\ last'.op = "summary"
                => ret'.has_stats /\ ret'.stats = Statistics(mem[last'.npc_id])
             /\ (last'.op = "relationship" /\ last'.entity # NoneVal)
                => ret' = RelationshipResponse(mem[last'.npc_id], last'.entity)
       /\ \A a \in DOMAIN mem :
              \/ a \in DOMAIN mem' /\ mem'[a] = mem[a]
              \/ last'.op = "record" /\ last'.npc_id = a /\ last'.accepted
              \/ last'.op = "delete" /\ last'.npc_id = a
              \/ last'.op = "restart"
      ]_vars

(* A summary read from memory counts an event although no write has ever   *)
(* succeeded                                                               *)
C21_Witness ==
    /\ last.op = "summary"
    /\ last.source = "memory"
    /\ ret.stats.total_combat_events = 1
    /\ ret.stats.relationships_tracked = 1
    /\ disk = NoFile

(* C22: a persistence write failure during event ingestion, fresh creation *)
(* or delete is surfaced to the caller: the call is not answered with the  *)
(* success result of the same operation whose write succeeded.             *)
C22_WriteFailureSurfaced ==
    (/\ last.op \in {"record", "relationship", "summary", "delete"}
     /\ \E i \in DOMAIN last.writes : last.writes[i] # "ok")
    => ret.code # 200

(* The persisted entry of npc id a exists and does not validate *)
EntryCorrupt(file, a) == a \in Persisted(file) /\ ~StoreDataValid(file.data[a])

(* C23: when the persisted entry of one agent is corrupt at load time,     *)
(* that agent gets a fresh default store, while every other persisted      *)
(* agent can still be resolved afterwards with its prior persisted         *)
(* content (it is in memory, or its entry is still in the file unchanged). *)
C23_CorruptionIsolated ==
    [][(/\ IsQuery(last'.op)
        /\ last'.source # "none"
        /\ last'.npc_id \notin DOMAIN mem
        /\ EntryCorrupt(disk, last'.npc_id))
       => /\ last'.source = "fresh"
          /\ IsDefaultStore(mem'[last'.npc_id], last'.npc_id)
          /\ \A b \in Persisted(disk) \ {last'.npc_id} :
                 ~EntryCorrupt(disk, b)
                 => \/ b \in DOMAIN mem'
                    \/ /\ b \in Persisted(disk')
                       /\ disk'.data[b] = disk.data[b]]_vars

(* C24: recording an event of any kind for agent A leaves the MemoryStore  *)
(* of every other agent unchanged, in memory and in the persisted          *)
(* collection: the stores of distinct agents share no log and no ledger.   *)
C24_OtherAgentsUntouched ==
    [][(/\ last'.op = "record"
        /\ steps' = steps + 1
        /\ last'.npc_id # NoneVal)
       => /\ \A b \in DOMAIN mem \ {last'.npc_id} :
                 b \in DOMAIN mem' /\ mem'[b] = mem[b]
          /\ \A b \in Persisted(disk) \ {last'.npc_id} :
                 b \in Persisted(disk') /\ disk'.data[b] = disk.data[b]]_vars

AllDone == \A t \in Threads : thr[t].pc = "done"

(* C25: event ingestions for two different agents whose steps interleave   *)
(* arbitrarily end in the state of running them one after the other: each  *)
(* agent's store holds its event, and the persisted collection holds the   *)
(* latest state of both agents.                                            *)
C25_CrossAgentSerializable ==
    (AllDone /\ thr["t1"].npc_id # thr["t2"].npc_id)
    => /\ disk.state = "ok"
       /\ \A t \in Threads :
              /\ thr[t].npc_id \in DOMAIN mem
              /\ ~thr[t].detached
              /\ LogOf(mem[thr[t].npc_id], thr[t].kind) =
                     << EventOf(thr[t].kind, thr[t].data,
                                LogOf(mem[thr[t].npc_id], thr[t].kind)[1].timestamp) >>
              /\ thr[t].npc_id \in Persisted(disk)
              /\ disk.data[thr[t].npc_id] = model_dump(mem[thr[t].npc_id])

(* C26: two concurrent calls that both reference a never-seen agent id end *)
(* up working on one and the same MemoryStore, and no event recorded by    *)
(* either call is lost from the in-memory collection.                      *)
C26_SameAgentExclusive ==
    (AllDone /\ thr["t1"].npc_id = thr["t2"].npc_id)
    => /\ \A t \in Threads : ~thr[t].detached
       /\ mem[thr["t1"].npc_id].combat_events = hist[thr["t1"].npc_id].combat
       /\ mem[thr["t1"].npc_id].social_events = hist[thr["t1"].npc_id].social

StatusAsSpecified(trust) ==
    CASE trust < -50 -> "enemy"
      [] -50 <= trust /\ trust < -20 -> "hostile"
      [] -20 <= trust /\ trust < 20 -> "neutral"
      [] 20 <= trust /\ trust < 50 -> "friendly"
      [] trust >= 50 -> "trusted_friend"

(* C27: get_status returns enemy when trust < -50, hostile when            *)
(* -50 <= trust < -20, neutral when -20 <= trust < 20, friendly when       *)
(* 20 <= trust < 50, and trusted_friend when trust >= 50, for every trust  *)
(* in [-100,100]; the relationship query reports that status.              *)
C27_StatusTable ==
    /\ \A a \in DOMAIN mem : \A e \in DOMAIN mem[a].relationships :
           get_status(mem[a].relationships[e])
               = StatusAsSpecified(mem[a].relationships[e].trust)
    /\ ret.has_rel
       => /\ ret.rel.trust = mem[last.npc_id].relationships[ret.rel.entity].trust
          /\ ret.rel.status = StatusAsSpecified(ret.rel.trust)
          /\ ret.status = ret.rel.status

(* The query answered for a trust on a threshold *)
C27_Witness ==
    /\ last.op = "relationship"
    /\ ret.has_rel
    /\ ret.rel.trust = -50
    /\ ret.rel.status = "hostile"

SentimentAsSpecified(fear, affection, trust) ==
    IF fear > 60 THEN "terrified"
    ELSE IF 30 < fear /\ fear <= 60 THEN "afraid"
    ELSE IF affection > 60 THEN "loves"
    ELSE IF 30 < affection /\ affection <= 60 THEN "likes"
    ELSE IF trust < -50 THEN "hates"
    ELSE "indifferent"

(* C28: get_sentiment returns terrified when fear > 60, afraid when        *)
(* 30 < fear <= 60, otherwise loves when affection > 60, likes when        *)
(* 30 < affection <= 60, otherwise hates when trust < -50, otherwise       *)
(* indifferent: fear above 30 overrides affection and hate, affection      *)
(* above 30 overrides hate.                                                *)
C28_SentimentTable ==
    /\ \A a \in DOMAIN mem : \A e \in DOMAIN mem[a].relationships :
           LET r == mem[a].relationships[e]
           IN /\ get_sentiment(r)
                     = SentimentAsSpecified(r.fear, r.affection, r.trust)
              /\ r.fear > 30 => get_sentiment(r) \in {"terrified", "afraid"}
              /\ (r.fear <= 30 /\ r.affection > 30)
                     => get_sentiment(r) \in {"loves", "likes"}
    /\ ret.has_rel
       => ret.rel.sentiment
              = SentimentAsSpecified(ret.rel.fear, ret.rel.affection,
                                     ret.rel.trust)

(* Fear just above 30 won over the highest affection and the lowest trust *)
C28_Witness ==
    /\ last.op = "relationship"
    /\ ret.has_rel
    /\ ret.rel.fear = 31
    /\ ret.rel.affection = 100
    /\ ret.rel.trust = -100
    /\ ret.rel.sentiment = "afraid"

(* A ledger with every score and counter at zero *)
ZeroLedger(name, etype) ==
    [entity_name |-> name, entity_type |-> etype,
     trust |-> 0, fear |-> 0, affection |-> 0,
     times_attacked_by |-> 0, times_attacked |-> 0,
     total_damage_received |-> 0, total_damage_dealt |-> 0,
     gifts_received |-> 0, gifts_given |-> 0, times_helped |-> 0,
     last_interaction |-> 0]

(* The ledger the last request found, or the zero ledger it created *)
LedgerBefore(etype) ==
    IF last.has_before THEN [last.before EXCEPT !.last_interaction = 0]
    ELSE ZeroLedger(last.entity, etype)

Clamped(x, lo, hi) == IF x < lo THEN lo ELSE IF x > hi THEN hi ELSE x

ClampedScores(r) ==
    [r EXCEPT !.trust = Clamped(@, -100, 100),
              !.fear = Clamped(@, 0, 100),
              !.affection = Clamped(@, 0, 100)]

DamageOf(d) == IF d.damage = << >> THEN 0 ELSE d.damage[1]

(* The reference update of a ledger b by a combat event *)
CombatReference(b, d) ==
    IF d.event_type = "attacked_by"
    THEN LET n == b.times_attacked_by + 1
             t == b.trust - 15
         IN ClampedScores(
               [b EXCEPT !.times_attacked_by = n,
                         !.total_damage_received = @ + DamageOf(d),
                         !.trust = IF n >= 3 /\ t > -40 THEN -40 ELSE t,
                         !.fear = @ + 10,
                         !.affection = @ - 5])
    ELSE IF d.event_type = "attacked"
    THEN ClampedScores([b EXCEPT !.times_attacked = @ + 1,
                                 !.total_damage_dealt = @ + DamageOf(d)])
    ELSE ClampedScores([b EXCEPT !.fear = @ + 5])

(* C29: recordCombat changes the counterpart's ledger exactly as the       *)
(* reference: attacked_by adds 1 to times_attacked_by, the damage (0 if    *)
(* absent) to total_damage_received, subtracts 15 from trust, adds 10 to   *)
(* fear, subtracts 5 from affection, then sets trust to min(trust, -40) if *)
(* times_attacked_by >= 3; attacked adds 1 to times_attacked and the       *)
(* damage to total_damage_dealt; witnessed_death adds 5 to fear only; each *)
(* branch is followed by clamping the three scores.                        *)
C29_CombatUpdate ==
    (last.op = "record" /\ last.accepted /\ last.kind = "combat")
    => [Ledger EXCEPT !.last_interaction = 0]
           = CombatReference(LedgerBefore(last.data.entity_type), last.data)

(* The third attack of a counterpart that gifts had made a trusted friend  *)
C29_Witness ==
    /\ IsRecorded("attacked_by")
    /\ last.has_before
    /\ last.before.times_attacked_by = 2
    /\ last.before.trust = 60
    /\ last.before.affection = 90
    /\ Ledger.trust = -40
    /\ Ledger.fear = 30
    /\ Ledger.affection = 85
    /\ Ledger.total_damage_received = 15

(* The reference update of a ledger b by a social event *)
SocialReference(b, d) ==
    IF d.event_type = "gift_received"
    THEN ClampedScores([b EXCEPT !.gifts_received = @ + 1,
                                 !.trust = @ + 10,
                                 !.affection = @ + 15,
                                 !.fear = IF @ - 5 < 0 THEN 0 ELSE @ - 5])
    ELSE IF d.event_type = "gift_given"
    THEN ClampedScores([b EXCEPT !.gifts_given = @ + 1])
    ELSE IF d.event_type = "helped"
    THEN ClampedScores([b EXCEPT !.times_helped = @ + 1,
                                 !.trust = @ + 5,
                                 !.affection = @ + 5])
    ELSE ClampedScores(b)

(* C30: recordSocial changes the counterpart's ledger exactly as the       *)
(* reference: gift_received adds 1 to gifts_received, 10 to trust, 15 to   *)
(* affection and lowers fear by 5 but not below 0; gift_given adds 1 to    *)
(* gifts_given; helped adds 1 to times_helped, 5 to trust and 5 to         *)
(* affection; chat and ignored change no score and no counter; each branch *)
(* is followed by clamping the three scores.                               *)
C30_SocialUpdate ==
    (last.op = "record" /\ last.accepted /\ last.kind = "social")
    => [Ledger EXCEPT !.last_interaction = 0]
           = SocialReference(LedgerBefore("player"), last.data)

(* A gift to a ledger whose affection was already at its maximum *)
C30_Witness ==
    /\ IsRecorded("gift_received")
    /\ last.has_before
    /\ last.before.affection = 100
    /\ last.before.trust = 90
    /\ Ledger.trust = 100
    /\ Ledger.affection = 100
    /\ Ledger.gifts_received = 10

(* The store a request for npc id a resolves to: the one in memory, else   *)
(* the persisted one, else a default store                                 *)
StoreBefore(a) ==
    IF a \in DOMAIN mem THEN mem[a]
    ELSE IF a \in Persisted(disk) /\ StoreDataValid(disk.data[a])
    THEN StoreFromData(disk.data[a])
    ELSE EnhancedMemoryStore(a, clock)

(* The step records an event of the given kind *)
Records(kind) ==
    /\ last'.op = "record"
    /\ steps' = steps + 1
    /\ last'.accepted
    /\ last'.kind = kind

(* C31: recording an environmental event only appends to the agent's       *)
(* environmental log (evicting beyond 50): it leaves every ledger, the set *)
(* of ledgers, total_interactions, total_combat_events, current_threat,    *)
(* and the combat and social logs unchanged.                               *)
C31_EnvironmentalFrame ==
    [][Records("environmental")
       => LET m0 == StoreBefore(last'.npc_id)
              m1 == mem'[last'.npc_id]
              ev == EventOf("environmental", last'.data, clock)
          IN /\ m1.environmental_events
                    = LastOf(Append(m0.environmental_events, ev), 50)
             /\ m1.relationships = m0.relationships
             /\ m1.total_interactions = m0.total_interactions
             /\ m1.total_combat_events = m0.total_combat_events
             /\ m1.current_threat = m0.current_threat
             /\ m1.combat_events = m0.combat_events
             /\ m1.social_events = m0.social_events]_vars

(* An environmental event evicted the oldest one from a store that has a   *)
(* ledger                                                                  *)
C31_Witness ==
    /\ last.op = "record"
    /\ last.accepted
    /\ last.kind = "environmental"
    /\ Len(hist[last.npc_id].environmental) = 51
    /\ Len(mem[last.npc_id].environmental_events) = 50
    /\ DOMAIN mem[last.npc_id].relationships # {}
    /\ mem[last.npc_id].total_interactions + mem[last.npc_id].total_combat_events = 1

(* C32: recordCombat adds exactly 1 to total_combat_events for every       *)
(* combat event (also when the log is full and an entry is evicted) and    *)
(* never changes total_interactions or the social log; recordSocial adds   *)
(* exactly 1 to total_interactions for every social event and never        *)
(* changes total_combat_events, current_threat or the combat log.          *)
C32_CounterFrame ==
    [][/\ Records("combat")
          => LET m0 == StoreBefore(last'.npc_id)
                 m1 == mem'[last'.npc_id]
             IN /\ m1.total_combat_events = m0.total_combat_events + 1
                /\ m1.total_interactions = m0.total_interactions
                /\ m1.social_events = m0.social_events
       /\ Records("social")
          => LET m0 == StoreBefore(last'.npc_id)
                 m1 == mem'[last'.npc_id]
             IN /\ m1.total_interactions = m0.total_interactions + 1
                /\ m1.total_combat_events = m0.total_combat_events
                /\ m1.current_threat = m0.current_threat
                /\ m1.combat_events = m0.combat_events]_vars

(* The 51st combat event: the log stays at 50 entries, the counter goes on *)
C32_Witness ==
    /\ last.op = "record"
    /\ last.accepted
    /\ last.kind = "combat"
    /\ mem[last.npc_id].total_combat_events = 51
    /\ Len(mem[last.npc_id].combat_events) = 50
    /\ mem[last.npc_id].total_interactions = 0

(* The indices of the last 5 entries of a log *)
Last5(log) == { i \in DOMAIN log : i > Len(log) - 5 }

RecentAttacks(m) ==
    { i \in Last5(m.combat_events) : m.combat_events[i].event_type = "attacked_by" }

(* C33: the context summary contains the threat line iff current_threat is *)
(* set and has a ledger; it contains the recent-attacks note iff at least  *)
(* one of the last 5 combat-log entries is an attacked_by event, with the  *)
(* number of such entries; it lists as enemies exactly the counterparts    *)
(* with trust < -30 and as friends exactly those with trust > 40; and      *)
(* computing it (by the memory-summary query) changes nothing in the       *)
(* store.                                                                  *)
C33_ContextSummary ==
    /\ [](\A a \in DOMAIN mem :
             LET m == mem[a]
                 c == get_context_summary(m)
             IN /\ (c.threat # << >>)
                       <=> (/\ m.current_threat # NoneVal
                            /\ m.current_threat \in DOMAIN m.relationships)
                /\ c.threat # << >>
                       => /\ c.threat[1].name = m.current_threat
                          /\ c.threat[1].attacked
                                 = m.relationships[m.current_threat].times_attacked_by
                          /\ c.threat[1].trust
                                 = m.relationships[m.current_threat].trust
                /\ (c.recent_attacks > 0) <=> (RecentAttacks(m) # {})
                /\ c.recent_attacks = Cardinality(RecentAttacks(m))
                /\ \A e \in Entities :
                       /\ e \in c.enemies
                              <=> (/\ e \in DOMAIN m.relationships
                                   /\ m.relationships[e].trust < -30)
                       /\ e \in c.friends
                              <=> (/\ e \in DOMAIN m.relationships
                                   /\ m.relationships[e].trust > 40)
                /\ c.enemies \cup c.friends \subseteq Entities)
    /\ [][(last'.op = "summary" /\ last'.source # "none")
          => /\ mem'[last'.npc_id] = StoreBefore(last'.npc_id)
             /\ ret'.context = get_context_summary(StoreBefore(last'.npc_id))
             /\ \A a \in DOMAIN mem : mem'[a] = mem[a]]_vars

(* A summary with a threat line, an enemy, and a recent-attacks note that  *)
(* counts fewer attacks than the combat log holds                          *)
C33_Witness ==
    /\ last.op = "summary"
    /\ ret.context.threat # << >>
    /\ ret.context.enemies = {"Steve"}
    /\ ret.context.recent_attacks = 4
    /\ AttackedByIn(mem[last.npc_id].combat_events) > 5
    /\ "Alex" \in DOMAIN mem[last.npc_id].relationships

(* Every write of the handler that has just returned succeeded, and there  *)
(* was at least one                                                        *)
SavedOk(req) ==
    /\ req.writes # << >>
    /\ \A i \in DOMAIN req.writes : req.writes[i] = "ok"

(* C34: a save never drops a non-deleted agent from the persisted          *)
(* collection: when a handler (recording an event, creating a store,       *)
(* deleting an agent) has saved, every other agent that was persisted      *)
(* before is still persisted, with unchanged content, also after a restart *)
(* in which only some persisted agents have been resolved into memory.     *)
C34_SaveKeepsPersistedAgents ==
    [][(/\ last'.op \in {"record", "relationship", "summary", "delete"}
        /\ last' # last
        /\ SavedOk(last'))
       => \A b \in Persisted(disk) \ {last'.npc_id} :
              /\ b \in Persisted(disk')
              /\ disk'.data[b] = disk.data[b]]_vars

(* C35: current_threat is either unset or names a counterpart that has a   *)
(* ledger with times_attacked_by >= 3; once set it is never unset again    *)
(* while the store exists, also when later gifts or help raise that        *)
(* counterpart's trust above -40; and it changes only to another           *)
(* counterpart at an attacked_by event that brings or finds that           *)
(* counterpart's count at 3 or more.                                       *)
C35_ThreatLatch ==
    /\ [](\A a \in DOMAIN mem :
             LET m == mem[a]
             IN \/ m.current_threat = NoneVal
                \/ /\ m.current_threat \in DOMAIN m.relationships
                   /\ m.relationships[m.current_threat].times_attacked_by
                          >= ESCALATION_ATTACKS)
    /\ [][\A a \in DOMAIN mem \cap DOMAIN mem' :
             /\ mem[a].current_threat # NoneVal
                    => mem'[a].current_threat # NoneVal
             /\ mem'[a].current_threat # mem[a].current_threat
                    => /\ last'.op = "record"
                       /\ last'.accepted
                       /\ last'.npc_id = a
                       /\ last'.kind = "combat"
                       /\ last'.data.event_type = "attacked_by"
                       /\ last'.data.entity_name = mem'[a].current_threat
                       /\ mem'[a].relationships[mem'[a].current_threat]
                              .times_attacked_by >= ESCALATION_ATTACKS]_vars

(* A gift has just been recorded from the counterpart that stays the       *)
(* threat although its trust is above the escalation floor                 *)
C35_Witness ==
    /\ IsRecorded("gift_received")
    /\ mem[last.npc_id].current_threat = last.entity
    /\ Ledger.trust > ESCALATION_TRUST
    /\ Ledger.times_attacked_by >= ESCALATION_ATTACKS

(* The threat has moved from one counterpart to another *)
C35_WitnessSwitch ==
    /\ IsRecorded("attacked_by")
    /\ last.entity = "Alex"
    /\ mem[last.npc_id].current_threat = "Alex"
    /\ "Steve" \in DOMAIN mem[last.npc_id].relationships
    /\ mem[last.npc_id].relationships["Steve"].times_attacked_by
           >= ESCALATION_ATTACKS

(* The only events recorded for agent a since its store was created are    *)
(* attacked_by events from e                                               *)
OnlyAttacksBy(a, e) ==
    /\ hist[a].social = << >>
    /\ hist[a].environmental = << >>
    /\ \A i \in DOMAIN hist[a].combat :
           /\ hist[a].combat[i].event_type = "attacked_by"
           /\ hist[a].combat[i].entity_name = e

(* C36: for a counterpart whose only recorded events are n attacked_by     *)
(* events on a fresh store, should_be_aggressive is true exactly when      *)
(* 3 <= n <= 6: after 2 attacks trust is exactly -30 and from the 7th      *)
(* attack on fear is at least 70.                                          *)
C36_AggressionWindow ==
    \A a \in DOMAIN mem : \A e \in Entities :
        OnlyAttacksBy(a, e)
        => LET n == Len(hist[a].combat)
           IN /\ should_be_aggressive(mem[a], e) <=> (3 <= n /\ n <= 6)
              /\ n = 2 => mem[a].relationships[e].trust = -30
              /\ n >= 7 => mem[a].relationships[e].fear >= 70

(* The seventh attack has just been recorded: fear has reached 70 and the  *)
(* store is no longer aggressive although trust is far below -30           *)
C36_Witness ==
    /\ IsRecorded("attacked_by")
    /\ steps > 0
    /\ OnlyAttacksBy(last.npc_id, last.entity)
    /\ Len(hist[last.npc_id].combat) = 7
    /\ Ledger.fear = 70
    /\ Ledger.trust < -30
    /\ ~should_be_aggressive(mem[last.npc_id], last.entity)
    /\ last.has_before
    /\ should_be_aggressive(
           [mem[last.npc_id] EXCEPT !.relationships =
               Put(@, last.entity, last.before)], last.entity)

SixAttacksOnly(a, e) == OnlyAttacksBy(a, e) /\ Len(hist[a].combat) = 6

(* C37: should_be_aggressive and should_avoid are not mutually exclusive:  *)
(* after six attacked_by events from one counterpart on a fresh store both *)
(* are true for that counterpart, and the response of the event that       *)
(* brought the store there reports should_attack and should_avoid both     *)
(* true.                                                                   *)
C37_AttackAndAvoid ==
    \A a \in DOMAIN mem : \A e \in Entities :
        SixAttacksOnly(a, e)
        => /\ should_be_aggressive(mem[a], e)
           /\ should_avoid(mem[a], e)
           /\ (IsRecorded("attacked_by") /\ last.npc_id = a /\ last.entity = e)
                  => /\ ret.code = 200
                     /\ ret.has_rel
                     /\ ret.rel.should_attack
                     /\ ret.rel.should_avoid

(* The sixth attack, one without damage, has just been answered with both  *)
(* recommendations                                                         *)
C37_Witness ==
    /\ IsRecorded("attacked_by")
    /\ steps > 0
    /\ SixAttacksOnly(last.npc_id, last.entity)
    /\ ret.has_rel
    /\ ret.rel.should_attack
    /\ ret.rel.should_avoid
    /\ Ledger.total_damage_received = 0

(* The sum over the ledgers named in names of times_attacked_by +          *)
(* times_attacked                                                          *)
RECURSIVE AttackCounts(_, _)
AttackCounts(rels, names) ==
    IF names = {} THEN 0
    ELSE LET n == CHOOSE x \in names : TRUE
         IN rels[n].times_attacked_by + rels[n].times_attacked
                + AttackCounts(rels, names \ {n})

(* C38: for every store created fresh, the combat log length equals        *)
(* min(total_combat_events, 50), the social log length equals              *)
(* min(total_interactions, 50), and the sum over all ledgers of            *)
(* times_attacked_by + times_attacked is at most total_combat_events.      *)
C38_LogsAndCounters ==
    \A a \in DOMAIN mem :
        LET m == mem[a]
        IN /\ Len(m.combat_events) = Min2(m.total_combat_events, MAX_LOG)
           /\ Len(m.social_events) = Min2(m.total_interactions, MAX_LOG)
           /\ AttackCounts(m.relationships, DOMAIN m.relationships)
                  <= m.total_combat_events

(* The combat log is full and has dropped an entry, and one of the 51      *)
(* combat events is counted in no ledger                                   *)
C38_Witness ==
    /\ IsRecorded("witnessed_death")
    /\ LET m == mem[last.npc_id]
       IN /\ m.total_combat_events = MAX_LOG + 1
          /\ Len(m.combat_events) = MAX_LOG
          /\ AttackCounts(m.relationships, DOMAIN m.relationships) = MAX_LOG
          /\ Len(m.social_events) = m.total_interactions

(* The store m1 is the store m0 with one chat event of player p, recorded  *)
(* at time now, and nothing else                                           *)
OneChatAdded(m0, m1, p, now) ==
    LET n0 == Len(m0.social_events)
        n1 == Len(m1.social_events)
        b == IF p \in DOMAIN m0.relationships THEN m0.relationships[p]
             ELSE [entity_name |-> p, entity_type |-> "player",
                   trust |-> 0, fear |-> 0, affection |-> 0,
                   times_attacked_by |-> 0, times_attacked |-> 0,
                   total_damage_received |-> 0, total_damage_dealt |-> 0,
                   gifts_received |-> 0, gifts_given |-> 0, times_helped |-> 0,
                   last_interaction |-> now]
    IN /\ m1.total_interactions = m0.total_interactions + 1
       /\ n1 = Min2(n0 + 1, MAX_LOG)
       /\ m1.social_events[n1]
              = [event_type |-> "chat", entity_name |-> p, timestamp |-> now]
       /\ \A i \in 1..(n1 - 1) :
              m1.social_events[i] = m0.social_events[i + (n0 + 1 - n1)]
       /\ DOMAIN m1.relationships = DOMAIN m0.relationships \cup {p}
       /\ \A e \in DOMAIN m0.relationships \ {p} :
              m1.relationships[e] = m0.relationships[e]
       /\ m1.relationships[p] = [b EXCEPT !.last_interaction = now]
       /\ m1.combat_events = m0.combat_events
       /\ m1.environmental_events = m0.environmental_events
       /\ m1.total_combat_events = m0.total_combat_events
       /\ m1.current_threat = m0.current_threat
       /\ m1.npc_id = m0.npc_id

(* C39: an enhanced interaction records exactly one chat social event for  *)
(* the named player (creating that player's ledger if absent and adding 1  *)
(* to total_interactions) only after the generative response was obtained  *)
(* and parsed; it records nothing when the player is SYSTEM or when the    *)
(* generative call or the parsing fails.                                   *)
C39_InteractionRecording ==
    [][(last'.op = "interact" /\ steps' = steps + 1)
       => IF last'.source = "none"
          THEN mem' = mem /\ disk' = disk /\ hist' = hist /\ ret'.code = 400
          ELSE LET a == last'.npc_id
                   p == last'.entity
                   m0 == StoreBefore(a)
                   m1 == mem'[a]
               IN /\ \A b \in DOMAIN mem \ {a} :
                         b \in DOMAIN mem' /\ mem'[b] = mem[b]
                  /\ (m1 # m0) <=> last'.accepted
                  /\ last'.accepted
                         => /\ last'.kind \notin {"call_fails", "parse_fails"}
                            /\ p # SystemPlayer
                            /\ OneChatAdded(m0, m1, p, clock)
                  /\ (p = SystemPlayer
                         \/ last'.kind \in {"call_fails", "parse_fails"})
                         => m1 = m0 /\ ~last'.accepted
                  /\ (last'.kind = "ok" /\ p \notin {SystemPlayer, NoneVal})
                         => ret'.code = 200 /\ OneChatAdded(m0, m1, p, clock)
                  /\ last'.kind \in {"call_fails", "parse_fails"}
                         => ret'.code = 500]_vars

(* A conversation with a player not named in the request has been          *)
(* answered: the ledger of the default player is new and the full social   *)
(* log has dropped its oldest entry                                        *)
C39_Witness ==
    /\ last.op = "interact"
    /\ last.accepted
    /\ last.kind = "ok"
    /\ ret.code = 200
    /\ last.entity = DefaultPlayer
    /\ ~last.has_before
    /\ mem[last.npc_id].total_interactions = MAX_LOG + 1
    /\ Len(mem[last.npc_id].social_events) = MAX_LOG
    /\ Ledger.trust = 0

(* A failed generative call on an agent seen for the first time: the store *)
(* exists, empty                                                           *)
C39_WitnessFailure ==
    /\ last.op = "interact"
    /\ last.kind = "call_fails"
    /\ last.source = "fresh"
    /\ last.entity = "Steve"
    /\ ret.code = 500
    /\ mem[last.npc_id].total_interactions = 0

=============================================================================
